---- MODULE Spec2Model ----
(***************************************************************************)
(* The UNO card-game area of bradleyxwang/Uno: the rule engine of          *)
(* shared/src/common.ts and the area operations of                         *)
(* townService/src/town/CardGameArea.ts, as a state machine.               *)
(*                                                                         *)
(* Player indices, card indices and list positions are 0-based, as in the  *)
(* source; At0/Set0/Remove0 translate to the 1-based sequences of TLA+.    *)
(* An operation that throws leaves the state as it was at the throw: each  *)
(* handler is an operator returning the resulting game together with the   *)
(* message of the error it threw ("ok" when it returned normally).         *)
(***************************************************************************)
EXTENDS Integers, Sequences, FiniteSets, TLC

(***************************************************************************)
(* Bounds of the model.  The source deals DEFAULT_HAND_SIZE = 7 cards and  *)
(* builds, for each of 4 colours, ten number cards and 2 of each action    *)
(* card, plus 4 of each wild card; the model deals HandSize cards and      *)
(* builds, for each of NumColors colours, NumValues number cards and       *)
(* ActionCopies of each action card, plus WildCopies of each wild card, so *)
(* that wins, empty decks and reshuffles are reached within MaxMoves       *)
(* logged moves.  As in the source, where 8 hands of 7, the starting card  *)
(* and 2 more cards are 59 of the 64 cards of the smallest deck, the       *)
(* smallest deck of the model covers the largest deal of the model: 3      *)
(* hands of HandSize, the starting card and 2 more cards.  The long games  *)
(* whose records are replayed run for MaxReplayMoves logged moves.         *)
(***************************************************************************)
HandSize == 2
NumColors == 2
NumValues == 2
ActionCopies == 1
WildCopies == 1
RandomLevels == 3
MaxMoves == 4
MaxGames == 2
MaxReplayMoves == 5

(* Program constants. *)
MIN_PLAYERS == 2
MAX_PLAYERS == 8
MOVE_TIMEOUT == 20000
DealAttempts == 100
DefaultRating == 1000

NUMBER == "number"
DRAW_TWO == "draw_two"
REVERSE == "reverse"
SKIP == "skip"
WILD == "wild"
WILD_DRAW_FOUR == "wild_draw_four"
RECEIVE_HAND == "receive_hand"
QUIT == "quit"
(* PlayableMove.type is a boolean in the source: DRAW = true, PLAY = false. *)
DRAW == "draw"
PLAY == "play"
RED == "red"
YELLOW == "yellow"
BLUE == "blue"
GREEN == "green"
(* A string that is no card's colour: PlayableMove.color is any string. *)
PURPLE == "purple"
ALL_CARD_COLORS == SubSeq(<<RED, YELLOW, BLUE, GREEN>>, 1, NumColors)

(* JavaScript's undefined, for optional strings and optional numbers. *)
Undefined == "undefined"
NoNumber == 0 - 1

(* Messages of the errors the handlers throw. *)
OK == "ok"
ErrNoGame == "No game with this ID exists"
ErrNotActive == "Can not play move if player is not active"
ErrNotTurn == "Not this player's turn"
ErrNoCard == "Must specify the card being played"
ErrDrawPending == "Card game requires that draw be played"
ErrWildNoColor == "Tried to play wild card without specifying color"
ErrColor == "Tried to play card with different color than current color"
ErrEnded == "Card game has ended"
ErrTimeout == "Not enough time has passed to skip the current player's turn"
ErrQuit == "Can not quit card game if player is not active player in this card game"
ErrDiscardEmpty == "Discard pile is empty"
ErrJoined == "Player has already joined this game"
ErrNotJoined == "Player has not joined this game"
ErrTooFew == "Can not start a game with less than 2 players"
ErrTooMany == "Can not start a game with more than 8 players"
ErrDeal == "Failed to deal cards"
ErrSpectating == "Player is already spectating this game"
ErrNotSpectator == "Player is not a spectator of this game"
(* TypeErrors of reading a property of undefined: the type of a card that *)
(* is not there, the rating of a player whose prior rating is not stored. *)
ErrNoType == "TypeError: Cannot read properties of undefined (reading 'type')"
ErrNoRating == "TypeError: Cannot read properties of undefined (reading 'rating')"

(***************************************************************************)
(* 0-based list helpers (Array indexing, splice, findIndex, some).         *)
(***************************************************************************)
Len0(s) == Len(s)

InRange0(s, i) == i >= 0 /\ i < Len(s)

At0(s, i) == s[i + 1]

Set0(s, i, v) == [s EXCEPT ![i + 1] = v]

Remove0(s, i) == [k \in 1..(Len(s) - 1) |-> IF k <= i THEN s[k] ELSE s[k + 1]]

Slice0(s, from) == [k \in 1..(IF Len(s) > from THEN Len(s) - from ELSE 0) |-> s[k + from]]

Some0(s, v) == \E k \in 1..Len(s) : s[k] = v

FindIndex0(s, v) == IF Some0(s, v) THEN (CHOOSE k \in 1..Len(s) : s[k] = v /\ \A m \in 1..(k - 1) : s[m] # v) - 1 ELSE 0 - 1

(***************************************************************************)
(* Cards.  A wild card has no colour and only a number card has a value.   *)
(***************************************************************************)
Card(t, c, v) == [type |-> t, color |-> c, value |-> v]

UndefinedCard == Card(Undefined, Undefined, NoNumber)

IsWild(card) == card.type = WILD \/ card.type = WILD_DRAW_FOUR

(* deck[i] of the source: undefined past the end of the array. *)
CardAt0(s, i) == IF InRange0(s, i) THEN At0(s, i) ELSE UndefinedCard

RECURSIVE Repeat(_, _)
Repeat(s, n) == IF n = 0 THEN <<>> ELSE s \o Repeat(s, n - 1)

(* The deck builder, for a list of colours, a number of values, a number   *)
(* of copies of each action card and a number of copies of each wild card. *)
ColorCards(actualColor, values, copies) ==
  [v \in 1..values |-> Card(NUMBER, actualColor, v - 1)]
  \o Repeat(<<Card(DRAW_TWO, actualColor, NoNumber), Card(REVERSE, actualColor, NoNumber), Card(SKIP, actualColor, NoNumber)>>, copies)

RECURSIVE ColorLoop(_, _, _, _, _)
ColorLoop(color, colors, values, copies, k) ==
  IF k > Len(colors) THEN <<>>
  ELSE ColorCards(IF color # Undefined THEN color ELSE colors[k], values, copies) \o ColorLoop(color, colors, values, copies, k + 1)

(* Fault variant of BuildDeck: the wild cards are added to every deck. *)
BuildDeck_AlwaysWild(color, colors, values, copies, wilds) ==
  ColorLoop(color, colors, values, copies, 1)
  \o Repeat(<<Card(WILD, Undefined, NoNumber), Card(WILD_DRAW_FOUR, Undefined, NoNumber)>>, wilds)

BuildDeck(color, colors, values, copies, wilds) ==
  ColorLoop(color, colors, values, copies, 1)
  \o (IF color = Undefined
      THEN Repeat(<<Card(WILD, Undefined, NoNumber), Card(WILD_DRAW_FOUR, Undefined, NoNumber)>>, wilds)
      ELSE <<>>)

(* The deck of the model. *)
genUnoDeck(color) == BuildDeck(color, ALL_CARD_COLORS, NumValues, ActionCopies, WildCopies)

(* The deck of the source: 4 colours, values 0 to 9, 2 copies of each      *)
(* action card, 4 copies of each wild card.                                *)
StandardDeck(color) == BuildDeck(color, <<RED, YELLOW, BLUE, GREEN>>, 10, 2, 4)

(***************************************************************************)
(* shuffleCards: Fisher-Yates.  Math.random() is r / RandomLevels, the     *)
(* same r for every step of one shuffle.                                   *)
(***************************************************************************)
Swap0(s, i, j) == [s EXCEPT ![i + 1] = s[j + 1], ![j + 1] = s[i + 1]]

RECURSIVE ShuffleFrom(_, _, _)
ShuffleFrom(deck, i, r) ==
  IF i >= Len(deck) - 1 THEN deck
  ELSE ShuffleFrom(Swap0(deck, i, i + ((r * (Len(deck) - i)) \div RandomLevels)), i + 1, r)

shuffleCards(deck, r) == ShuffleFrom(deck, 0, r)

(***************************************************************************)
(* The rule engine of shared/src/common.ts.  A game g is a record with the *)
(* fields of OngoingCardGame; lastDrawPlayed is NoNumber when undefined.   *)
(***************************************************************************)
(* The outcome of a call: the game as the call left it, the error it threw *)
(* (OK for none) and how many times it invoked the game-end callback.      *)
Result(g, err, ended) == [g |-> g, err |-> err, ended |-> ended]

(* Fault variant of StepIdx: the index does not wrap around. *)
StepIdx_NoWrap(g) == IF g.playerDirection THEN g.currentPlayerIdx + 1 ELSE g.currentPlayerIdx - 1

StepIdx(g) ==
  IF g.playerDirection
  THEN (IF g.currentPlayerIdx + 1 = Len(g.players) THEN 0 ELSE g.currentPlayerIdx + 1)
  ELSE (IF g.currentPlayerIdx - 1 < 0 THEN Len(g.players) - 1 ELSE g.currentPlayerIdx - 1)

RECURSIVE AdvanceLoop(_)
AdvanceLoop(g) ==
  LET g1 == [g EXCEPT !.currentPlayerIdx = StepIdx(g)]
  IN  IF ~Some0(g1.activePlayers, g1.currentPlayerIdx) THEN AdvanceLoop(g1) ELSE g1

advanceMove(g) == IF Len(g.activePlayers) = 0 THEN g ELSE AdvanceLoop(g)

(* The do-while loop of advanceMove, stopped after at most fuel iterations: *)
(* done tells whether the loop came to its end within them.                *)
RECURSIVE LoopWithin(_, _)
LoopWithin(g, fuel) ==
  LET g1 == [g EXCEPT !.currentPlayerIdx = StepIdx(g)]
  IN  IF fuel = 0 THEN [done |-> FALSE, g |-> g]
      ELSE IF ~Some0(g1.activePlayers, g1.currentPlayerIdx) THEN LoopWithin(g1, fuel - 1)
      ELSE [done |-> TRUE, g |-> g1]

(***************************************************************************)
(* Rating computation of CardGameArea.ts.  Every prior rating the model's  *)
(* store returns is DefaultRating, so each pairwise expected score         *)
(* 1 / (1 + 10 ** 0) is 1/2 and the new rating is the rational             *)
(* prev + num / den below; Math.round rounds halves up.                    *)
(***************************************************************************)
choose2(n) == (n * (n - 1)) \div 2

(* Fault variant of MathRound: the fraction is cut off. *)
MathRound_Down(num, den) == num \div den

MathRound(num, den) == (2 * num + den) \div (2 * den)

HasPrevElo(g, playerId) == \E k \in 1..Len(g.prevEloRatings) : g.prevEloRatings[k].playerId = playerId

PrevElo(g, playerId) == g.prevEloRatings[CHOOSE k \in 1..Len(g.prevEloRatings) : g.prevEloRatings[k].playerId = playerId]

calculateNewEloRatingChange(playerId, ranking, g) ==
  LET n == Len(g.prevEloRatings)
      prevElo == PrevElo(g, playerId)
      others == Cardinality({k \in 1..n : g.prevEloRatings[k].playerId # playerId})
      twiceC2 == 2 * choose2(n)
      num == 50 * (n - 1) * (2 * (n - ranking - 1) - others)
  IN  [playerId |-> playerId, prevElo |-> prevElo.rating,
       newElo |-> MathRound(prevElo.rating * twiceC2 + num, twiceC2)]

RECURSIVE LoserChanges(_, _, _)
LoserChanges(g, k, acc) ==
  IF k > Len(g.players) THEN acc
  ELSE LoserChanges(g, k + 1,
         IF \E m \in 1..Len(acc) : acc[m].playerId = g.players[k]
         THEN acc
         ELSE Append(acc, calculateNewEloRatingChange(g.players[k], Len(g.winners), g)))

calculateNewElos(g) ==
  LET winnerChanges == [k \in 1..Len(g.winners) |-> calculateNewEloRatingChange(At0(g.players, g.winners[k]), k - 1, g)]
  IN  [g EXCEPT !.eloRatingChanges = LoserChanges(g, 1, winnerChanges)]

(* prevElo is undefined, and reading prevElo.rating throws, for a player   *)
(* the prior-rating fetch has not stored yet.                              *)
(* The id of the game a replay builds ('replayed_game'), as a number that  *)
(* no game of the area has.                                                *)
ReplayedGame == 0 - 2

(* The callback is the caller's: the area passes _onGameEnd; the replay    *)
(* passes updateEloRatingChanges, which copies the record's rating changes *)
(* (nextMove below does that, as it holds the record) and does not throw.  *)
onGameEnd(g) ==
  IF g.id = ReplayedGame THEN Result(g, OK, 1)
  ELSE IF \E k \in 1..Len(g.players) : ~HasPrevElo(g, g.players[k])
  THEN Result(g, ErrNoRating, 1)
  ELSE Result(calculateNewElos(g), OK, 1)

(* Fault variants of updateIfGameEnded: one that never ends the game, one  *)
(* that ends it without the callback, one that records the last player as *)
(* a winner but keeps activePlayers.                                       *)
updateIfGameEnded_NeverEnds(g) == Result(g, OK, 0)

updateIfGameEnded_NoCallback(g) ==
  IF Len(g.activePlayers) = 1
  THEN Result([g EXCEPT !.winners = Append(@, g.activePlayers[1]), !.activePlayers = <<>>], OK, 0)
  ELSE Result(g, OK, 0)

updateIfGameEnded_KeepsActive(g) ==
  IF Len(g.activePlayers) = 1
  THEN onGameEnd([g EXCEPT !.winners = Append(@, g.activePlayers[1])])
  ELSE Result(g, OK, 0)

updateIfGameEnded(g) ==
  IF Len(g.activePlayers) = 1
  THEN onGameEnd([g EXCEPT !.winners = Append(@, g.activePlayers[1]), !.activePlayers = <<>>])
  ELSE Result(g, OK, 0)

(* Fault variant of drawCard: the drawn card stays on the deck. *)
drawCard_KeepsDeck(g, r) ==
  IF Len(g.deck) = 0 THEN Result(g, OK, 0)
  ELSE Result([g EXCEPT !.hands = Set0(@, g.currentPlayerIdx, Append(At0(@, g.currentPlayerIdx), g.deck[1])),
                        !.cardsDrawnDuringGame = Append(@, g.deck[1])], OK, 0)

(* Fault variant of drawCard: the reshuffle takes the whole discard pile. *)
drawCard_TakesTop(g, r) ==
  LET g1 == IF Len(g.deck) = 0
            THEN [g EXCEPT !.deck = shuffleCards(g.discardPile, r),
                           !.discardPile = IF Len(g.discardPile) = 0 THEN <<>> ELSE <<g.discardPile[Len(g.discardPile)]>>]
            ELSE g
  IN  IF Len(g.deck) = 0 /\ Len(g.discardPile) = 0 THEN Result(g1, ErrDiscardEmpty, 0)
      ELSE IF Len(g1.deck) # 0
      THEN Result([g1 EXCEPT !.hands = Set0(@, g1.currentPlayerIdx, Append(At0(@, g1.currentPlayerIdx), g1.deck[1])),
                             !.cardsDrawnDuringGame = Append(@, g1.deck[1]),
                             !.deck = Tail(@)], OK, 0)
      ELSE Result(g1, OK, 0)

drawCard(g, r) ==
  LET g1 == IF Len(g.deck) = 0
            THEN [g EXCEPT !.deck = shuffleCards(SubSeq(g.discardPile, 1, Len(g.discardPile) - 1), r),
                           !.discardPile = IF Len(g.discardPile) = 0 THEN <<>> ELSE <<g.discardPile[Len(g.discardPile)]>>]
            ELSE g
  IN  IF Len(g.deck) = 0 /\ Len(g.discardPile) = 0 THEN Result(g1, ErrDiscardEmpty, 0)
      ELSE IF Len(g1.deck) # 0
      THEN Result([g1 EXCEPT !.hands = Set0(@, g1.currentPlayerIdx, Append(At0(@, g1.currentPlayerIdx), g1.deck[1])),
                             !.cardsDrawnDuringGame = Append(@, g1.deck[1]),
                             !.deck = Tail(@)], OK, 0)
      ELSE Result(g1, OK, 0)

RECURSIVE DrawLoop(_, _, _)
DrawLoop(g, numDraws, r) ==
  IF numDraws = 0 THEN Result(g, OK, 0)
  ELSE LET d == drawCard(g, r)
       IN  IF d.err # OK THEN d ELSE DrawLoop(d.g, numDraws - 1, r)

(* Fault variant of playDrawMove: always one card, whatever lastDrawPlayed. *)
playDrawMove_OneCard(g, r) ==
  LET d == DrawLoop(g, 1, r)
  IN  IF d.err # OK THEN d
      ELSE Result(advanceMove([d.g EXCEPT !.lastDrawPlayed = NoNumber]), OK, 0)

(* Fault variant of playDrawMove: the turn stays with the player who drew. *)
playDrawMove_KeepsTurn(g, r) ==
  LET numDraws == IF g.lastDrawPlayed = NoNumber \/ g.lastDrawPlayed = 0 THEN 1 ELSE g.lastDrawPlayed
      d == DrawLoop(g, numDraws, r)
  IN  IF d.err # OK THEN d
      ELSE Result([d.g EXCEPT !.lastDrawPlayed = NoNumber], OK, 0)

playDrawMove(g, r) ==
  LET numDraws == IF g.lastDrawPlayed = NoNumber \/ g.lastDrawPlayed = 0 THEN 1 ELSE g.lastDrawPlayed
      d == DrawLoop(g, numDraws, r)
  IN  IF d.err # OK THEN d
      ELSE Result(advanceMove([d.g EXCEPT !.lastDrawPlayed = NoNumber]), OK, 0)

(***************************************************************************)
(* playMove of common.ts.  A move is [type, card, color]: card is NoNumber *)
(* and color is Undefined when the field is absent.  Reading .type of a    *)
(* card index outside the hand (or of an undefined card dealt past the end *)
(* of the deck) throws a TypeError.                                        *)
(***************************************************************************)
(* Fault variants of PlayEffects: a reverse that always flips the          *)
(* direction, a reverse that never flips it, and a wild_draw_four that     *)
(* obliges the next player to draw two.                                    *)
PlayEffects_AlwaysFlips(g, curCard) ==
  LET g1 == IF curCard.type = REVERSE THEN [g EXCEPT !.playerDirection = ~@] ELSE g
      g2 == IF curCard.type = SKIP THEN advanceMove(g1) ELSE g1
      g3 == IF curCard.type = DRAW_TWO \/ curCard.type = WILD_DRAW_FOUR
            THEN [g2 EXCEPT !.lastDrawPlayed = IF curCard.type = DRAW_TWO THEN 2 ELSE 4]
            ELSE g2
  IN  advanceMove(g3)

PlayEffects_NeverFlips(g, curCard) ==
  LET g1 == IF curCard.type = REVERSE /\ Len(g.activePlayers) = 2 THEN advanceMove(g) ELSE g
      g2 == IF curCard.type = SKIP THEN advanceMove(g1) ELSE g1
      g3 == IF curCard.type = DRAW_TWO \/ curCard.type = WILD_DRAW_FOUR
            THEN [g2 EXCEPT !.lastDrawPlayed = IF curCard.type = DRAW_TWO THEN 2 ELSE 4]
            ELSE g2
  IN  advanceMove(g3)

PlayEffects_AlwaysTwo(g, curCard) ==
  LET g1 == IF curCard.type = REVERSE
            THEN (IF Len(g.activePlayers) = 2 THEN advanceMove(g)
                  ELSE [g EXCEPT !.playerDirection = ~@])
            ELSE g
      g2 == IF curCard.type = SKIP THEN advanceMove(g1) ELSE g1
      g3 == IF curCard.type = DRAW_TWO \/ curCard.type = WILD_DRAW_FOUR
            THEN [g2 EXCEPT !.lastDrawPlayed = 2]
            ELSE g2
  IN  advanceMove(g3)

(* Fault variant of PlayEffects: a skip card gets no second advance. *)
PlayEffects_NoSkip(g, curCard) ==
  LET g1 == IF curCard.type = REVERSE
            THEN (IF Len(g.activePlayers) = 2 THEN advanceMove(g)
                  ELSE [g EXCEPT !.playerDirection = ~@])
            ELSE g
      g3 == IF curCard.type = DRAW_TWO \/ curCard.type = WILD_DRAW_FOUR
            THEN [g1 EXCEPT !.lastDrawPlayed = IF curCard.type = DRAW_TWO THEN 2 ELSE 4]
            ELSE g1
  IN  advanceMove(g3)

PlayEffects(g, curCard) ==
  LET g1 == IF curCard.type = REVERSE
            THEN (IF Len(g.activePlayers) = 2 THEN advanceMove(g)
                  ELSE [g EXCEPT !.playerDirection = ~@])
            ELSE g
      g2 == IF curCard.type = SKIP THEN advanceMove(g1) ELSE g1
      g3 == IF curCard.type = DRAW_TWO \/ curCard.type = WILD_DRAW_FOUR
            THEN [g2 EXCEPT !.lastDrawPlayed = IF curCard.type = DRAW_TWO THEN 2 ELSE 4]
            ELSE g2
  IN  advanceMove(g3)

(* Fault variants of PlayCard: one that assigns currentColor before it     *)
(* finds the colour missing, one that never compares the card's colour,    *)
(* one that declares a winner with one card still in hand.                 *)
PlayCard_ColorFirst(g, move, activeIdx) ==
  LET curHand == At0(g.hands, g.currentPlayerIdx)
      curCard == CardAt0(curHand, move.card)
      g1 == IF IsWild(curCard) THEN [g EXCEPT !.currentColor = move.color] ELSE g
      newHand == Remove0(curHand, move.card)
      g2 == [g1 EXCEPT !.hands = Set0(@, g.currentPlayerIdx, newHand),
                       !.discardPile = Append(@, curCard)]
      g3 == [g2 EXCEPT !.winners = Append(@, g.currentPlayerIdx),
                       !.activePlayers = Remove0(@, activeIdx)]
      u == IF Len(newHand) = 0 THEN updateIfGameEnded(g3) ELSE Result(g2, OK, 0)
  IN  IF curCard = UndefinedCard THEN Result(g, ErrNoType, 0)
      ELSE IF IsWild(curCard) /\ move.color = Undefined THEN Result(g1, ErrWildNoColor, 0)
      ELSE IF ~IsWild(curCard) /\ curCard.color # g.currentColor THEN Result(g, ErrColor, 0)
      ELSE IF u.err # OK THEN u
      ELSE Result(PlayEffects(u.g, curCard), OK, u.ended)

PlayCard_WinsEarly(g, move, activeIdx) ==
  LET curHand == At0(g.hands, g.currentPlayerIdx)
      curCard == CardAt0(curHand, move.card)
      g1 == IF IsWild(curCard) THEN [g EXCEPT !.currentColor = move.color] ELSE g
      newHand == Remove0(curHand, move.card)
      g2 == [g1 EXCEPT !.hands = Set0(@, g.currentPlayerIdx, newHand),
                       !.discardPile = Append(@, curCard)]
      g3 == [g2 EXCEPT !.winners = Append(@, g.currentPlayerIdx),
                       !.activePlayers = Remove0(@, activeIdx)]
      u == IF Len(newHand) <= 1 THEN updateIfGameEnded(g3) ELSE Result(g2, OK, 0)
  IN  IF curCard = UndefinedCard THEN Result(g, ErrNoType, 0)
      ELSE IF IsWild(curCard) /\ move.color = Undefined THEN Result(g, ErrWildNoColor, 0)
      ELSE IF ~IsWild(curCard) /\ curCard.color # g.currentColor THEN Result(g, ErrColor, 0)
      ELSE IF u.err # OK THEN u
      ELSE Result(PlayEffects(u.g, curCard), OK, u.ended)

PlayCard_AnyColor(g, move, activeIdx) ==
  LET curHand == At0(g.hands, g.currentPlayerIdx)
      curCard == CardAt0(curHand, move.card)
      g1 == IF IsWild(curCard) THEN [g EXCEPT !.currentColor = move.color] ELSE g
      newHand == Remove0(curHand, move.card)
      g2 == [g1 EXCEPT !.hands = Set0(@, g.currentPlayerIdx, newHand),
                       !.discardPile = Append(@, curCard)]
      g3 == [g2 EXCEPT !.winners = Append(@, g.currentPlayerIdx),
                       !.activePlayers = Remove0(@, activeIdx)]
      u == IF Len(newHand) = 0 THEN updateIfGameEnded(g3) ELSE Result(g2, OK, 0)
  IN  IF curCard = UndefinedCard THEN Result(g, ErrNoType, 0)
      ELSE IF IsWild(curCard) /\ move.color = Undefined THEN Result(g, ErrWildNoColor, 0)
      ELSE IF u.err # OK THEN u
      ELSE Result(PlayEffects(u.g, curCard), OK, u.ended)

PlayCard(g, move, activeIdx) ==
  LET curHand == At0(g.hands, g.currentPlayerIdx)
      curCard == CardAt0(curHand, move.card)
      g1 == IF IsWild(curCard) THEN [g EXCEPT !.currentColor = move.color] ELSE g
      newHand == Remove0(curHand, move.card)
      g2 == [g1 EXCEPT !.hands = Set0(@, g.currentPlayerIdx, newHand),
                       !.discardPile = Append(@, curCard)]
      g3 == [g2 EXCEPT !.winners = Append(@, g.currentPlayerIdx),
                       !.activePlayers = Remove0(@, activeIdx)]
      u == IF Len(newHand) = 0 THEN updateIfGameEnded(g3) ELSE Result(g2, OK, 0)
  IN  IF curCard = UndefinedCard THEN Result(g, ErrNoType, 0)
      ELSE IF IsWild(curCard) /\ move.color = Undefined THEN Result(g, ErrWildNoColor, 0)
      ELSE IF ~IsWild(curCard) /\ curCard.color # g.currentColor THEN Result(g, ErrColor, 0)
      ELSE IF u.err # OK THEN u
      ELSE Result(PlayEffects(u.g, curCard), OK, u.ended)

(* Fault variant of playMove: a card may be played while a draw is pending. *)
playMove_IgnoresPending(g, move, r) ==
  LET activeIdx == FindIndex0(g.activePlayers, g.currentPlayerIdx)
  IN  IF move.type = DRAW THEN playDrawMove(g, r)
      ELSE IF move.card = NoNumber THEN Result(g, ErrNoCard, 0)
      ELSE PlayCard(g, move, activeIdx)

playMove(g, move, r) ==
  LET activeIdx == FindIndex0(g.activePlayers, g.currentPlayerIdx)
  IN  IF move.type = DRAW THEN playDrawMove(g, r)
      ELSE IF move.card = NoNumber THEN Result(g, ErrNoCard, 0)
      ELSE IF g.lastDrawPlayed # NoNumber THEN Result(g, ErrDrawPending, 0)
      ELSE PlayCard(g, move, activeIdx)

(***************************************************************************)
(* quitCardGame of common.ts; now is Date.now().                           *)
(***************************************************************************)
FullMove(playerId, now, move) == [playerId |-> playerId, timestamp |-> now, move |-> move]

(* A logged move: a PlayableMove as submitted, or a synthetic move, whose   *)
(* cards are the dealt hand of a receive_hand entry.                       *)
Move(t, card, color) == [type |-> t, card |-> card, color |-> color, cards |-> <<>>]

BasicMove(t) == Move(t, NoNumber, Undefined)

ReceiveHand(cards) == [type |-> RECEIVE_HAND, card |-> NoNumber, color |-> Undefined, cards |-> cards]

(* Fault variant of quitCardGame: the turn stays with a current player who quits. *)
quitCardGame_KeepsTurn(g, playerId, now) ==
  LET playerIdx == FindIndex0(g.players, playerId)
      activeIdx == FindIndex0(g.activePlayers, playerIdx)
      g1 == [g EXCEPT !.activePlayers = Remove0(@, activeIdx),
                      !.moves = Append(@, FullMove(At0(g.players, playerIdx), now, BasicMove(QUIT)))]
  IN  IF activeIdx = NoNumber THEN Result(g, ErrQuit, 0)
      ELSE updateIfGameEnded(g1)

(* Fault variant of quitCardGame: the turn moves on whoever quits. *)
quitCardGame_AlwaysAdvances(g, playerId, now) ==
  LET playerIdx == FindIndex0(g.players, playerId)
      activeIdx == FindIndex0(g.activePlayers, playerIdx)
      g1 == [g EXCEPT !.activePlayers = Remove0(@, activeIdx),
                      !.moves = Append(@, FullMove(At0(g.players, playerIdx), now, BasicMove(QUIT)))]
      u == updateIfGameEnded(g1)
  IN  IF activeIdx = NoNumber THEN Result(g, ErrQuit, 0)
      ELSE IF u.err # OK THEN u
      ELSE Result(advanceMove(u.g), OK, u.ended)

(* Fault variant of quitCardGame: the quit of the current player takes the *)
(* pending draw with it.                                                   *)
quitCardGame_ClearsDraw(g, playerId, now) ==
  LET playerIdx == FindIndex0(g.players, playerId)
      activeIdx == FindIndex0(g.activePlayers, playerIdx)
      g1 == [g EXCEPT !.activePlayers = Remove0(@, activeIdx),
                      !.moves = Append(@, FullMove(At0(g.players, playerIdx), now, BasicMove(QUIT)))]
      u == updateIfGameEnded(g1)
  IN  IF activeIdx = NoNumber THEN Result(g, ErrQuit, 0)
      ELSE IF u.err # OK THEN u
      ELSE IF playerIdx = g.currentPlayerIdx THEN Result(advanceMove([u.g EXCEPT !.lastDrawPlayed = NoNumber]), OK, u.ended)
      ELSE u

quitCardGame(g, playerId, now) ==
  LET playerIdx == FindIndex0(g.players, playerId)
      activeIdx == FindIndex0(g.activePlayers, playerIdx)
      g1 == [g EXCEPT !.activePlayers = Remove0(@, activeIdx),
                      !.moves = Append(@, FullMove(At0(g.players, playerIdx), now, BasicMove(QUIT)))]
      u == updateIfGameEnded(g1)
  IN  IF activeIdx = NoNumber THEN Result(g, ErrQuit, 0)
      ELSE IF u.err # OK THEN u
      ELSE IF playerIdx = g.currentPlayerIdx THEN Result(advanceMove(u.g), OK, u.ended)
      ELSE u

(***************************************************************************)
(* The card-game area of CardGameArea.ts.  The handlers are operators on   *)
(* the area's lists; the actions below apply them.                         *)
(***************************************************************************)
VARIABLES
  nonStartedGames,  \* CardGameArea._nonStartedGames: <<[id, players]>>
  ongoingGames,     \* CardGameArea._ongoingGames: <<OngoingCardGame>>
  created,          \* number of ids nanoid() has handed out
  occupants,        \* InteractableArea._occupants: the players in the area
  areaChanged,      \* the model the last area-changed notification carried
  matchHistories,   \* the records addNewMatch was given, in order
  snapshots         \* history: per ongoing game, what it was after each logged move

vars == <<nonStartedGames, ongoingGames, created, occupants, areaChanged, matchHistories, snapshots>>

(* The players of the town; a player's googleEmail is the player itself.   *)
Players == {"ann", "bob", "cat"}

(* Game ids callers submit: the ids handed out so far and 0, which no game has. *)
GameIds == 0..MaxGames

(* Replacement colours a play move may carry: none, or the first colour. *)
MoveColors == {Undefined, ALL_CARD_COLORS[1]}

(* Card indices a play move may carry: absent, or an index into a hand. *)
MoveCards == {NoNumber} \cup (0..HandSize)

PlayableMoves == {Move(DRAW, NoNumber, Undefined)} \cup {Move(PLAY, c, col) : c \in MoveCards, col \in MoveColors}

Randoms == 0..(RandomLevels - 1)

(* Only a draw can reshuffle, so only a draw is tried with every r. *)
RandomsFor(move) == IF move.type = DRAW THEN Randoms ELSE {0}

(* Date.now() is an input of the calls that read it.  A game is started at *)
(* time 0; a move or a quit arrives with no time passed since the game's   *)
(* last logged move; a skip is requested at once, exactly MOVE_TIMEOUT ms  *)
(* after it, or one ms later.                                              *)
LastTime(g) == g.moves[Len(g.moves)].timestamp

Delays == {0, MOVE_TIMEOUT, MOVE_TIMEOUT + 1}

StartColors == {Undefined, RED}

(* find / findIndex by game id: the 1-based position, 0 when absent. *)
GameIndex(games, id) == IF \E k \in 1..Len(games) : games[k].id = id THEN CHOOSE k \in 1..Len(games) : games[k].id = id ELSE 0

PendingResult(games, err) == [games |-> games, err |-> err]

(* Fault variant of joinCardGame: a member may join again. *)
joinCardGame_Again(games, id, p) ==
  LET k == GameIndex(games, id)
  IN  IF k = 0 THEN PendingResult(games, ErrNoGame)
      ELSE PendingResult([games EXCEPT ![k].players = Append(@, p)], OK)

joinCardGame(games, id, p) ==
  LET k == GameIndex(games, id)
  IN  IF k = 0 THEN PendingResult(games, ErrNoGame)
      ELSE IF Some0(games[k].players, p) THEN PendingResult(games, ErrJoined)
      ELSE PendingResult([games EXCEPT ![k].players = Append(@, p)], OK)

leaveNonStartedCardGame(games, id, p) ==
  LET k == GameIndex(games, id)
      toRemove == FindIndex0(games[k].players, p)
      left == Remove0(games[k].players, toRemove)
  IN  IF k = 0 THEN PendingResult(games, ErrNoGame)
      ELSE IF toRemove = NoNumber THEN PendingResult(games, ErrNotJoined)
      ELSE IF Len(left) = 0 THEN PendingResult(Remove0(games, k - 1), OK)
      ELSE PendingResult([games EXCEPT ![k].players = left], OK)

(***************************************************************************)
(* startCardGame.  Each of the up to DealAttempts attempts shuffles the    *)
(* deck the previous attempt left: the first attempt with r, every later   *)
(* attempt with r2 (with r2 = 0 Math.random() returns 0 and the shuffle    *)
(* leaves the deck as it is).  A later attempt that leaves the deck as it  *)
(* is, with a wild card in the starting position, is repeated unchanged by *)
(* every attempt after it, so the loop runs out.  An attempt whose         *)
(* starting card lies past the end of the deck throws a TypeError on       *)
(* reading discardCard.type.                                               *)
(***************************************************************************)
DealtHands(deck, n) == [i \in 1..n |-> [c \in 1..HandSize |-> CardAt0(deck, (i - 1) * HandSize + (c - 1))]]

RECURSIVE DealLoop(_, _, _, _, _)
DealLoop(deck, n, r, r2, j) ==
  IF j >= DealAttempts THEN [err |-> ErrDeal, deck |-> deck]
  ELSE LET d == shuffleCards(deck, IF j = 0 THEN r ELSE r2)
           discardCard == CardAt0(d, n * HandSize)
       IN  IF discardCard = UndefinedCard THEN [err |-> ErrNoType, deck |-> d]
           ELSE IF discardCard.type # WILD /\ discardCard.type # WILD_DRAW_FOUR THEN [err |-> OK, deck |-> d]
           ELSE IF j > 0 /\ d = deck THEN [err |-> ErrDeal, deck |-> d]
           ELSE DealLoop(d, n, r, r2, j + 1)

(* Fault variant of NewGame: the starting card has no effect on the turn. *)
NewGame_NoEffects(pending, deck, t) ==
  LET n == Len(pending.players)
      discardCard == CardAt0(deck, n * HandSize)
      dealt == DealtHands(deck, n)
      hands == IF discardCard.type = DRAW_TWO
               THEN Set0(dealt, 0, dealt[1] \o <<CardAt0(deck, n * HandSize + 1), CardAt0(deck, n * HandSize + 2)>>)
               ELSE dealt
      nextIdx == n * HandSize + 1 + (IF discardCard.type = DRAW_TWO THEN 2 ELSE 0)
  IN  [id |-> pending.id,
       players |-> pending.players,
       activePlayers |-> [i \in 1..n |-> i - 1],
       spectators |-> <<>>,
       winners |-> <<>>,
       hands |-> hands,
       moves |-> [i \in 1..n |-> FullMove(pending.players[i], t, ReceiveHand(hands[i]))],
       deck |-> Slice0(deck, nextIdx),
       discardPile |-> <<discardCard>>,
       currentColor |-> discardCard.color,
       lastDrawPlayed |-> NoNumber,
       currentPlayerIdx |-> 0,
       playerDirection |-> TRUE,
       prevEloRatings |-> <<>>,
       eloRatingChanges |-> <<>>,
       cardsDrawnDuringGame |-> <<>>,
       startingTopCardDiscardPile |-> discardCard,
       initialHands |-> hands,
       startTime |-> t]

NewGame(pending, deck, t) ==
  LET n == Len(pending.players)
      discardCard == CardAt0(deck, n * HandSize)
      dealt == DealtHands(deck, n)
      hands == IF discardCard.type = DRAW_TWO
               THEN Set0(dealt, 0, dealt[1] \o <<CardAt0(deck, n * HandSize + 1), CardAt0(deck, n * HandSize + 2)>>)
               ELSE dealt
      nextIdx == n * HandSize + 1 + (IF discardCard.type = DRAW_TWO THEN 2 ELSE 0)
  IN  [id |-> pending.id,
       players |-> pending.players,
       activePlayers |-> [i \in 1..n |-> i - 1],
       spectators |-> <<>>,
       winners |-> <<>>,
       hands |-> hands,
       moves |-> [i \in 1..n |-> FullMove(pending.players[i], t, ReceiveHand(hands[i]))],
       deck |-> Slice0(deck, nextIdx),
       discardPile |-> <<discardCard>>,
       currentColor |-> discardCard.color,
       lastDrawPlayed |-> NoNumber,
       currentPlayerIdx |-> (IF discardCard.type = SKIP THEN 1 ELSE 0) + (IF discardCard.type = DRAW_TWO THEN 1 ELSE 0),
       playerDirection |-> (discardCard.type # REVERSE),
       prevEloRatings |-> <<>>,
       eloRatingChanges |-> <<>>,
       cardsDrawnDuringGame |-> <<>>,
       startingTopCardDiscardPile |-> discardCard,
       initialHands |-> hands,
       startTime |-> t]

StartResult(pending, ongoing, err) == [pending |-> pending, ongoing |-> ongoing, err |-> err]

(* Fault variant of startCardGame: without the limits on the players. *)
startCardGame_Unchecked(pending, ongoing, id, color, r, r2, t) ==
  LET k == GameIndex(pending, id)
      dealt == DealLoop(genUnoDeck(color), Len(pending[k].players), r, r2, 0)
  IN  IF k = 0 THEN StartResult(pending, ongoing, ErrNoGame)
      ELSE IF dealt.err # OK THEN StartResult(Remove0(pending, k - 1), ongoing, dealt.err)
      ELSE StartResult(Remove0(pending, k - 1), Append(ongoing, NewGame(pending[k], dealt.deck, t)), OK)

startCardGame(pending, ongoing, id, color, r, r2, t) ==
  LET k == GameIndex(pending, id)
      dealt == DealLoop(genUnoDeck(color), Len(pending[k].players), r, r2, 0)
  IN  IF k = 0 THEN StartResult(pending, ongoing, ErrNoGame)
      ELSE IF Len(pending[k].players) < MIN_PLAYERS THEN StartResult(pending, ongoing, ErrTooFew)
      ELSE IF Len(pending[k].players) > MAX_PLAYERS THEN StartResult(pending, ongoing, ErrTooMany)
      ELSE IF dealt.err # OK THEN StartResult(Remove0(pending, k - 1), ongoing, dealt.err)
      ELSE StartResult(Remove0(pending, k - 1), Append(ongoing, NewGame(pending[k], dealt.deck, t)), OK)

(***************************************************************************)
(* playMove, skipMove and quitOngoingCardGame of the area, on the game     *)
(* the id names.                                                           *)
(***************************************************************************)
(* Fault variant of the area's playMove: any player may move. *)
areaPlayMove_AnyPlayer(g, p, move, r, t) ==
  LET activeIdx == FindIndex0(g.activePlayers, g.currentPlayerIdx)
      res == playMove(g, move, r)
  IN  IF activeIdx = NoNumber THEN Result(g, ErrNotActive, 0)
      ELSE IF res.err # OK THEN res
      ELSE Result([res.g EXCEPT !.moves = Append(@, FullMove(p, t, move))], OK, res.ended)

areaPlayMove(g, p, move, r, t) ==
  LET activeIdx == FindIndex0(g.activePlayers, g.currentPlayerIdx)
      res == playMove(g, move, r)
  IN  IF activeIdx = NoNumber THEN Result(g, ErrNotActive, 0)
      ELSE IF At0(g.players, g.currentPlayerIdx) # p THEN Result(g, ErrNotTurn, 0)
      ELSE IF res.err # OK THEN res
      ELSE Result([res.g EXCEPT !.moves = Append(@, FullMove(p, t, move))], OK, res.ended)

(* Fault variant of skipMove: a finished game is skipped like a running one. *)
skipMove_OfEndedGame(g, r, t) ==
  LET g1 == [g EXCEPT !.moves = Append(@, FullMove(At0(g.players, g.currentPlayerIdx), t, BasicMove(SKIP)))]
  IN  IF t - g.moves[Len(g.moves)].timestamp <= MOVE_TIMEOUT THEN Result(g, ErrTimeout, 0)
      ELSE playDrawMove(g1, r)

skipMove(g, r, t) ==
  LET g1 == [g EXCEPT !.moves = Append(@, FullMove(At0(g.players, g.currentPlayerIdx), t, BasicMove(SKIP)))]
  IN  IF Len(g.activePlayers) = 0 THEN Result(g, ErrEnded, 0)
      ELSE IF t - g.moves[Len(g.moves)].timestamp <= MOVE_TIMEOUT THEN Result(g, ErrTimeout, 0)
      ELSE playDrawMove(g1, r)

quitOngoingCardGame(g, p, t) == quitCardGame(g, p, t)

(***************************************************************************)
(* spectateCardGame and stopSpectatingCardGame, on the game the id names;  *)
(* a spectator is known by the id of the town's player.                    *)
(***************************************************************************)
(* Fault variant of spectateCardGame: a spectator may be added again. *)
spectateCardGame_Again(g, v) == Result([g EXCEPT !.spectators = Append(@, v)], OK, 0)

spectateCardGame(g, v) ==
  IF Some0(g.spectators, v) THEN Result(g, ErrSpectating, 0)
  ELSE Result([g EXCEPT !.spectators = Append(@, v)], OK, 0)

stopSpectatingCardGame(g, v) ==
  LET spectatorIdx == FindIndex0(g.spectators, v)
  IN  IF spectatorIdx = NoNumber THEN Result(g, ErrNotSpectator, 0)
      ELSE Result([g EXCEPT !.spectators = Remove0(@, spectatorIdx)], OK, 0)

(***************************************************************************)
(* The state machine of the area: Init is the area as constructed.         *)
(***************************************************************************)
(* No notification has been sent: areaChanged is the empty list; after    *)
(* one it is the list of the one model the last notification carried.     *)
AreaInit ==
  /\ nonStartedGames = <<>>
  /\ ongoingGames = <<>>
  /\ created = 0
  /\ occupants = {}
  /\ areaChanged = <<>>
  /\ matchHistories = <<>>
  /\ snapshots = <<>>

(* What a replay shows of a game. *)
View(g) ==
  [hands |-> g.hands, currentPlayerIdx |-> g.currentPlayerIdx,
   activePlayers |-> g.activePlayers, winners |-> g.winners]

(* The history variable: an operation that lengthens the log of a game adds *)
(* the view of the game as it leaves it; a new game begins with none.       *)
Snap ==
  snapshots' =
    [k \in 1..Len(ongoingGames') |->
       IF k > Len(ongoingGames) THEN <<>>
       ELSE IF Len(ongoingGames'[k].moves) > Len(ongoingGames[k].moves)
            THEN Append(snapshots[k], View(ongoingGames'[k]))
            ELSE snapshots[k]]

(* toModel: the games of the area, as a notification carries them. *)
toModel(pending, ongoing) == [nonStartedGames |-> pending, ongoingGames |-> ongoing]

(* _emitAreaChanged, called with the lists as the handler has left them. *)
emitAreaChanged == areaChanged' = <<toModel(nonStartedGames', ongoingGames')>>

(* The notification is the last statement of every handler: it is sent    *)
(* when the handler returns and is not sent when the handler throws.      *)
Signal(err) == IF err = OK THEN emitAreaChanged ELSE UNCHANGED areaChanged

CreateCardGame(p) ==
  /\ created < MaxGames
  /\ nonStartedGames' = Append(nonStartedGames, [id |-> created + 1, players |-> <<p>>])
  /\ created' = created + 1
  /\ UNCHANGED <<ongoingGames, occupants, matchHistories, snapshots>>
  /\ Signal(OK)

JoinCardGame(id, p) ==
  LET res == joinCardGame(nonStartedGames, id, p)
  IN  /\ nonStartedGames' = res.games
      /\ UNCHANGED <<ongoingGames, created, occupants, matchHistories, snapshots>>
      /\ Signal(res.err)

LeaveNonStartedCardGame(id, p) ==
  LET res == leaveNonStartedCardGame(nonStartedGames, id, p)
  IN  /\ nonStartedGames' = res.games
      /\ UNCHANGED <<ongoingGames, created, occupants, matchHistories, snapshots>>
      /\ Signal(res.err)

StartCardGame(id, color, r, r2) ==
  LET res == startCardGame(nonStartedGames, ongoingGames, id, color, r, r2, 0)
  IN  /\ nonStartedGames' = res.pending
      /\ ongoingGames' = res.ongoing
      /\ UNCHANGED <<created, occupants, matchHistories>>
      /\ Signal(res.err)
      /\ Snap

(* InteractableArea.add: the player enters the area. *)
Add(p) ==
  /\ occupants' = occupants \cup {p}
  /\ UNCHANGED <<nonStartedGames, ongoingGames, created, areaChanged, matchHistories, snapshots>>

(* Fault variant of remove: the games outlive the last occupant. *)
remove_KeepsGames(occ, pending, ongoing, p) ==
  [occupants |-> occ \ {p}, pending |-> pending, ongoing |-> ongoing]

(* remove: the player leaves the area; the games go with the last one. *)
remove(occ, pending, ongoing, p) ==
  LET left == occ \ {p}
  IN  [occupants |-> left,
       pending |-> IF Cardinality(left) = 0 THEN <<>> ELSE pending,
       ongoing |-> IF Cardinality(left) = 0 THEN <<>> ELSE ongoing]

Remove(p) ==
  LET res == remove(occupants, nonStartedGames, ongoingGames, p)
  IN  /\ occupants' = res.occupants
      /\ nonStartedGames' = res.pending
      /\ ongoingGames' = res.ongoing
      /\ UNCHANGED <<created, matchHistories>>
      /\ emitAreaChanged
      /\ Snap

(* The continuation of _storePrevEloRatings: the store's ratings arrive.   *)
previousElos(g) == [i \in 1..Len(g.players) |-> [playerId |-> g.players[i], rating |-> DefaultRating]]

StorePrevEloRatings(k) ==
  /\ k \in 1..Len(ongoingGames)
  /\ ongoingGames[k].prevEloRatings = <<>>
  /\ ongoingGames' = [ongoingGames EXCEPT ![k].prevEloRatings = previousElos(ongoingGames[k])]
  /\ UNCHANGED <<nonStartedGames, created, occupants, areaChanged, matchHistories, snapshots>>

(* The log of a game is capped so that the model is finite. *)
CanMove(g) == Len(g.moves) < Len(g.players) + MaxMoves

(* Fault variant of saveMatchHistory: the record takes the log as it was   *)
(* when the operation began.                                               *)
saveMatchHistory_LogAtCall(before, after) ==
  [players |-> after.eloRatingChanges,
   playingOrder |-> after.players,
   startTime |-> after.startTime,
   endTime |-> LastTime(after),
   cardsDrawnDuringGame |-> after.cardsDrawnDuringGame,
   initialHands |-> after.initialHands,
   startingTopCardDiscardPile |-> after.startingTopCardDiscardPile,
   events |-> before.moves]

(* _saveMatchHistory: its calls of updatePlayerElo are made at once and    *)
(* not awaited, so the promise it awaits is settled already and the rest   *)
(* of it, which assembles the record, runs as soon as the operation that   *)
(* ended the game has returned and before any other operation begins: it   *)
(* reads the game as that operation left it.                               *)
saveMatchHistory(before, after) ==
  [players |-> after.eloRatingChanges,
   playingOrder |-> after.players,
   startTime |-> after.startTime,
   endTime |-> LastTime(after),
   cardsDrawnDuringGame |-> after.cardsDrawnDuringGame,
   initialHands |-> after.initialHands,
   startingTopCardDiscardPile |-> after.startingTopCardDiscardPile,
   events |-> after.moves]

(* _onGameEnd calls _saveMatchHistory when _calculateNewElos has returned. *)
addNewMatch(before, res) ==
  IF res.ended > 0 /\ res.err = OK
  THEN matchHistories' = Append(matchHistories, saveMatchHistory(before, res.g))
  ELSE UNCHANGED matchHistories

(* A call on the ongoing game at position k leaves it as the call left it, *)
(* whether it returned or threw.                                           *)
Applied(k, res) ==
  /\ ongoingGames' = [ongoingGames EXCEPT ![k] = res.g]
  /\ UNCHANGED <<nonStartedGames, created, occupants>>
  /\ Signal(res.err)
  /\ addNewMatch(ongoingGames[k], res)
  /\ Snap

Apply(k, res) == CanMove(ongoingGames[k]) /\ Applied(k, res)

PlayMove(id, p, move, r) ==
  LET k == GameIndex(ongoingGames, id)
  IN  IF k = 0 THEN UNCHANGED vars
      ELSE Apply(k, areaPlayMove(ongoingGames[k], p, move, r, LastTime(ongoingGames[k])))

SkipMove(id, r, delay) ==
  LET k == GameIndex(ongoingGames, id)
  IN  IF k = 0 THEN UNCHANGED vars
      ELSE Apply(k, skipMove(ongoingGames[k], r, LastTime(ongoingGames[k]) + delay))

QuitOngoingCardGame(id, p) ==
  LET k == GameIndex(ongoingGames, id)
  IN  IF k = 0 THEN UNCHANGED vars
      ELSE Apply(k, quitOngoingCardGame(ongoingGames[k], p, LastTime(ongoingGames[k])))

(* The ids of the town's players who may spectate. *)
Viewers == {"p1", "p2", "p3"}

SpectateCardGame(id, v) ==
  LET k == GameIndex(ongoingGames, id)
  IN  IF k = 0 THEN UNCHANGED vars
      ELSE /\ ongoingGames' = [ongoingGames EXCEPT ![k] = spectateCardGame(@, v).g]
           /\ UNCHANGED <<nonStartedGames, created, occupants, matchHistories, snapshots>>
           /\ Signal(spectateCardGame(ongoingGames[k], v).err)

StopSpectatingCardGame(id, v) ==
  LET k == GameIndex(ongoingGames, id)
  IN  IF k = 0 THEN UNCHANGED vars
      ELSE /\ ongoingGames' = [ongoingGames EXCEPT ![k] = stopSpectatingCardGame(@, v).g]
           /\ UNCHANGED <<nonStartedGames, created, occupants, matchHistories, snapshots>>
           /\ Signal(stopSpectatingCardGame(ongoingGames[k], v).err)

(* A call with an id no ongoing game has throws before it reads its other  *)
(* arguments, so one choice of them is tried.                              *)
ArgsFor(id, S) == IF GameIndex(ongoingGames, id) # 0 THEN S ELSE {CHOOSE x \in S : TRUE}

GameNext ==
  \/ \E k \in 1..MaxGames : StorePrevEloRatings(k)
  \/ \E id \in GameIds : \E p \in ArgsFor(id, Players), move \in ArgsFor(id, PlayableMoves) : \E r \in ArgsFor(id, RandomsFor(move)) : PlayMove(id, p, move, r)
  \/ \E id \in GameIds : \E r \in ArgsFor(id, Randoms), delay \in ArgsFor(id, Delays) : SkipMove(id, r, delay)
  \/ \E id \in GameIds : \E p \in ArgsFor(id, Players) : QuitOngoingCardGame(id, p)

AreaNext ==
  \/ \E p \in Players : Add(p)
  \/ \E p \in Players : Remove(p)
  \/ \E p \in Players : CreateCardGame(p)
  \/ \E id \in GameIds, p \in Players : JoinCardGame(id, p)
  \/ \E id \in GameIds, p \in Players : LeaveNonStartedCardGame(id, p)
  \/ \E id \in GameIds, color \in StartColors, r \in Randoms, r2 \in Randoms : StartCardGame(id, color, r, r2)
  \/ \E id \in GameIds, v \in Viewers : SpectateCardGame(id, v)
  \/ \E id \in GameIds, v \in Viewers : StopSpectatingCardGame(id, v)
  \/ GameNext

SpecArea == AreaInit /\ [][AreaNext]_vars

(* The pending games alone: create, join and leave from the empty area. *)
PendingNext ==
  \/ \E p \in Players : CreateCardGame(p)
  \/ \E id \in GameIds, p \in Players : JoinCardGame(id, p)
  \/ \E id \in GameIds, p \in Players : LeaveNonStartedCardGame(id, p)

SpecPending == AreaInit /\ [][PendingNext]_vars

(* The pending games and their start: create, join, leave and start from   *)
(* the empty area.                                                         *)
StartNext ==
  \/ PendingNext
  \/ \E id \in GameIds, color \in StartColors, r \in Randoms, r2 \in Randoms : StartCardGame(id, color, r, r2)

SpecStart == AreaInit /\ [][StartNext]_vars

(* The occupants and the games: players enter and leave the area, create   *)
(* and join games and start them, each start with the shuffles that leave  *)
(* the deck as built.                                                      *)
OccupantsNext ==
  \/ \E p \in Players : Add(p)
  \/ \E p \in Players : Remove(p)
  \/ \E p \in Players : CreateCardGame(p)
  \/ \E id \in GameIds, p \in Players : JoinCardGame(id, p)
  \/ \E id \in GameIds, color \in StartColors : StartCardGame(id, color, 0, 0)

SpecOccupants == AreaInit /\ [][OccupantsNext]_vars

(***************************************************************************)
(* advanceMove on its own: Init is a game of 2 to 4 players with any set   *)
(* of active players, either direction and any player's index as the       *)
(* current one (the index of a player who is not active included, as       *)
(* after the splice of a winner or of a quitter); the one action calls     *)
(* advanceMove.                                                            *)
(***************************************************************************)
TurnPlayers == <<"ann", "bob", "cat", "dan">>

TurnGame(n, active, direction, idx) ==
  [NewGame([id |-> 1, players |-> SubSeq(TurnPlayers, 1, n)], genUnoDeck(Undefined), 0)
     EXCEPT !.activePlayers = active, !.playerDirection = direction, !.currentPlayerIdx = idx]

(* The lists activePlayers can be: the indices 0..n-1 with some spliced out. *)
ActiveLists(n) == {a \in UNION {[1..m -> 0..(n - 1)] : m \in 0..n} : \A i \in 1..(Len(a) - 1) : a[i] < a[i + 1]}

TurnInit ==
  /\ nonStartedGames = <<>>
  /\ created = 1
  /\ occupants = {}
  /\ areaChanged = <<>>
  /\ matchHistories = <<>>
  /\ snapshots = <<<<>>>>
  /\ \E n \in 2..Len(TurnPlayers) : \E active \in ActiveLists(n), direction \in BOOLEAN, idx \in 0..(n - 1) :
       ongoingGames = <<TurnGame(n, active, direction, idx)>>

AdvanceMove(k) ==
  /\ k \in 1..Len(ongoingGames)
  /\ ongoingGames' = [ongoingGames EXCEPT ![k] = advanceMove(@)]
  /\ UNCHANGED <<nonStartedGames, created, occupants, areaChanged, matchHistories, snapshots>>

TurnNext == \E k \in 1..MaxGames : AdvanceMove(k)

SpecTurn == TurnInit /\ [][TurnNext]_vars

(***************************************************************************)
(* The games: Init is the area after ann created game 1, bob (and cat)     *)
(* joined it and startCardGame started it, for every colour filter and     *)
(* every r and r2, with the players of the town in the area; Next is the   *)
(* operations on ongoing games.                                            *)
(***************************************************************************)
Pending1 == <<[id |-> 1, players |-> <<"ann">>]>>

Pending2 == joinCardGame(Pending1, 1, "bob").games

Pending3 == joinCardGame(Pending2, 1, "cat").games

Starts == {startCardGame(pending, <<>>, 1, color, r, r2, 0) : pending \in {Pending2, Pending3}, color \in StartColors, r \in Randoms, r2 \in Randoms}

Init ==
  /\ \E st \in Starts :
       /\ st.err = OK
       /\ nonStartedGames = st.pending
       /\ ongoingGames = st.ongoing
       /\ areaChanged = <<toModel(st.pending, st.ongoing)>>
  /\ created = 1
  /\ occupants = Players
  /\ matchHistories = <<>>
  /\ snapshots = [k \in 1..Len(ongoingGames) |-> <<>>]

Next == GameNext

Spec == Init /\ [][Next]_vars

(* The spectators of the started games: Init as above, Next is spectate    *)
(* and stop spectating.                                                    *)
SpectateNext ==
  \/ \E id \in GameIds, v \in Viewers : SpectateCardGame(id, v)
  \/ \E id \in GameIds, v \in Viewers : StopSpectatingCardGame(id, v)

SpecSpectate == Init /\ [][SpectateNext]_vars

(***************************************************************************)
(* Properties.  G(k) is the ongoing game at position k; a property "of     *)
(* every call" quantifies over the inputs of Next in every reachable       *)
(* state and reads the call's outcome.                                     *)
(***************************************************************************)
Games == 1..Len(ongoingGames)

G(k) == ongoingGames[k]

Range(s) == {s[i] : i \in 1..Len(s)}

IsPrefix(s, t) == Len(s) <= Len(t) /\ \A i \in 1..Len(s) : s[i] = t[i]

Last(s) == s[Len(s)]

Ongoing(g) == Len(g.activePlayers) # 0

CurrentPlayer(g) == At0(g.players, g.currentPlayerIdx)

PlayCall(g, p, move, r) == areaPlayMove(g, p, move, r, LastTime(g))

(* C1: after start and after every operation, activePlayers is empty or has *)
(* at least 2 indices; an operation that removes a player and leaves one   *)
(* index appends that index to winners and empties activePlayers.          *)
C1_Size == \A k \in Games : Len(G(k).activePlayers) = 0 \/ Len(G(k).activePlayers) >= 2

C1_Step ==
  \A k \in Games :
    LET a == G(k).activePlayers
        a2 == ongoingGames'[k].activePlayers
        w == G(k).winners
        w2 == ongoingGames'[k].winners
    IN  a2 # a =>
          /\ Range(a2) \subseteq Range(a)
          /\ Len(a2) # 1
          /\ Len(a2) = 0 => /\ Len(a) = 2
                            /\ IsPrefix(w, w2)
                            /\ Len(w2) > Len(w)
                            /\ Last(w2) \in Range(a)
                            /\ \A i \in Range(a) \ {Last(w2)} : Len(w2) = Len(w) + 2 => w2[Len(w2) - 1] = i

C1_ActivePlayersEmptyOrTwo == []C1_Size /\ [][C1_Step]_vars

C1_Witness == \E k \in Games : Len(G(k).activePlayers) = 0 /\ Len(G(k).winners) >= 1 /\ Len(G(k).moves) > Len(G(k).players)

(* C2: whenever activePlayers is non-empty, currentPlayerIdx is one of its *)
(* members.                                                                *)
C2_CurrentPlayerIsActive == \A k \in Games : Ongoing(G(k)) => G(k).currentPlayerIdx \in Range(G(k).activePlayers)

C2_Witness ==
  \E k \in Games :
    /\ Ongoing(G(k))
    /\ Len(G(k).activePlayers) < Len(G(k).players)
    /\ Last(G(k).moves).move.type = QUIT
    /\ Last(G(k).moves).playerId # CurrentPlayer(G(k))

(* C3: no player index is both in winners and in activePlayers.            *)
C3_WinnersDisjointFromActive == \A k \in Games : Range(G(k).winners) \cap Range(G(k).activePlayers) = {}

C3_Witness == \E k \in Games : Len(G(k).winners) >= 1 /\ Ongoing(G(k))

(* C4: every operation leaves the multiset of the cards in the deck, the   *)
(* discard pile and all hands as it was: no card is duplicated or lost.    *)
RECURSIVE Flatten(_)
Flatten(ss) == IF Len(ss) = 0 THEN <<>> ELSE Head(ss) \o Flatten(Tail(ss))

AllCards(g) == g.deck \o g.discardPile \o Flatten(g.hands)

Count(s, c) == Cardinality({i \in 1..Len(s) : s[i] = c})

SameCards(g, h) == \A c \in Range(AllCards(g)) \cup Range(AllCards(h)) : Count(AllCards(g), c) = Count(AllCards(h), c)

C4_CardsConserved == [][\A k \in Games : SameCards(G(k), ongoingGames'[k])]_vars

(* A reshuffle has happened: cards that were played are no longer in the   *)
(* discard pile.                                                           *)
PlaysLogged(g) == Cardinality({i \in 1..Len(g.moves) : g.moves[i].move.type = PLAY})

C4_Witness == \E k \in Games : PlaysLogged(G(k)) + 1 > Len(G(k).discardPile) /\ Len(G(k).cardsDrawnDuringGame) >= 1

(* C5: a playMove, skipMove or quit that is rejected for one of the listed *)
(* reasons (game over, wrong player's turn, missing card index, pending    *)
(* draw, wild without colour, colour mismatch, timeout not elapsed,        *)
(* quitter not active) leaves every field of the game, the move log        *)
(* included, as it was.                                                    *)
PlayRejections == {ErrNotActive, ErrNotTurn, ErrNoCard, ErrDrawPending, ErrWildNoColor, ErrColor}

SkipRejections == {ErrEnded, ErrTimeout}

C5_RejectionChangesNothing ==
  \A k \in Games :
    /\ \A p \in Players, move \in PlayableMoves, r \in Randoms :
         PlayCall(G(k), p, move, r).err \in PlayRejections => PlayCall(G(k), p, move, r).g = G(k)
    /\ \A r \in Randoms, delay \in Delays :
         skipMove(G(k), r, LastTime(G(k)) + delay).err \in SkipRejections => skipMove(G(k), r, LastTime(G(k)) + delay).g = G(k)
    /\ \A p \in Players :
         quitOngoingCardGame(G(k), p, LastTime(G(k))).err = ErrQuit => quitOngoingCardGame(G(k), p, LastTime(G(k))).g = G(k)

C5_Witness ==
  \E k \in Games :
    /\ Len(G(k).moves) > Len(G(k).players)
    /\ \E move \in PlayableMoves : PlayCall(G(k), CurrentPlayer(G(k)), move, 0).err = ErrWildNoColor
    /\ \E move \in PlayableMoves : PlayCall(G(k), CurrentPlayer(G(k)), move, 0).err = ErrColor
    /\ \E p \in Players : quitOngoingCardGame(G(k), p, LastTime(G(k))).err = ErrQuit

(* C6: a playMove is applied only for the player at currentPlayerIdx, and  *)
(* only while currentPlayerIdx is active; from any other player, or on a   *)
(* game with no active players, it is rejected and changes nothing.        *)
MayPlay(g, p) == g.currentPlayerIdx \in Range(g.activePlayers) /\ CurrentPlayer(g) = p

C6_OnlyCurrentPlayerPlays ==
  \A k \in Games : \A p \in Players, move \in PlayableMoves, r \in Randoms :
    LET res == PlayCall(G(k), p, move, r)
    IN  /\ res.g # G(k) => MayPlay(G(k), p)
        /\ res.err = OK => MayPlay(G(k), p)
        /\ ~MayPlay(G(k), p) => res.err \in {ErrNotActive, ErrNotTurn}

C6_Witness ==
  \E k \in Games :
    /\ Ongoing(G(k))
    /\ Last(G(k).moves).move.type \in {PLAY, DRAW}
    /\ \E p \in Range(G(k).players) : p # CurrentPlayer(G(k)) /\ PlayCall(G(k), p, Move(DRAW, NoNumber, Undefined), 0).err = ErrNotTurn

(* C7: while lastDrawPlayed is set, every play-card move of the current    *)
(* player is rejected and changes nothing; lastDrawPlayed goes from set to *)
(* unset only in a draw move or a timeout skip, logged for the player      *)
(* whose turn it was.                                                      *)
C7_PlayRejected ==
  \A k \in Games : (Ongoing(G(k)) /\ G(k).lastDrawPlayed # NoNumber) =>
    \A move \in PlayableMoves, r \in Randoms :
      move.type = PLAY => /\ PlayCall(G(k), CurrentPlayer(G(k)), move, r).err # OK
                          /\ PlayCall(G(k), CurrentPlayer(G(k)), move, r).g = G(k)

C7_Discharge ==
  \A k \in Games :
    (G(k).lastDrawPlayed # NoNumber /\ ongoingGames'[k].lastDrawPlayed = NoNumber) =>
      /\ Len(ongoingGames'[k].moves) = Len(G(k).moves) + 1
      /\ Last(ongoingGames'[k].moves).move.type \in {DRAW, SKIP}
      /\ Last(ongoingGames'[k].moves).playerId = CurrentPlayer(G(k))

C7_DrawObligation == []C7_PlayRejected /\ [][C7_Discharge]_vars

C7_Witness ==
  \E k \in Games :
    /\ Ongoing(G(k))
    /\ G(k).lastDrawPlayed # NoNumber
    /\ \E move \in PlayableMoves : PlayCall(G(k), CurrentPlayer(G(k)), move, 0).err = ErrDrawPending

(* The index reached from index `from` by passing to the next active       *)
(* player, in direction dir around the n players, nth times.               *)
IdxAt(from, d, n, dir) == IF dir THEN (from + d) % n ELSE (from + d * n - d) % n

NthActive(active, n, dir, from, nth) ==
  LET D == {d \in 1..(nth * n) : IdxAt(from, d, n, dir) \in Range(active)}
      dn == CHOOSE d \in D : Cardinality({e \in D : e <= d}) = nth
  IN  IdxAt(from, dn, n, dir)

Min(a, b) == IF a <= b THEN a ELSE b

(* C8: a draw move of the current player, with k = lastDrawPlayed if set   *)
(* and 1 otherwise, is accepted, adds min(k, |deck| + |discardPile| - 1)   *)
(* cards to that player's hand, clears lastDrawPlayed and passes the turn  *)
(* to the next active player; with an empty deck and a one-card discard    *)
(* pile the hand keeps its size.                                           *)
C8_DrawMove ==
  \A k \in Games : Ongoing(G(k)) =>
    \A r \in Randoms :
      LET g == G(k)
          res == PlayCall(g, CurrentPlayer(g), Move(DRAW, NoNumber, Undefined), r)
          num == IF g.lastDrawPlayed # NoNumber THEN g.lastDrawPlayed ELSE 1
      IN  /\ res.err = OK
          /\ Len(At0(res.g.hands, g.currentPlayerIdx)) = Len(At0(g.hands, g.currentPlayerIdx)) + Min(num, Len(g.deck) + Len(g.discardPile) - 1)
          /\ \A i \in 1..Len(g.hands) : i # g.currentPlayerIdx + 1 => res.g.hands[i] = g.hands[i]
          /\ res.g.lastDrawPlayed = NoNumber
          /\ res.g.currentPlayerIdx = NthActive(g.activePlayers, Len(g.players), g.playerDirection, g.currentPlayerIdx, 1)

C8_Witness ==
  \E k \in Games :
    /\ Ongoing(G(k))
    /\ Len(G(k).deck) = 0
    /\ Len(G(k).discardPile) = 1
    /\ Last(G(k).moves).move.type = DRAW

(* C9: an accepted play of a non-wild card has the card's colour equal to  *)
(* currentColor and leaves currentColor as it was; an accepted play of a   *)
(* wild or wild_draw_four carries a colour, which becomes currentColor;    *)
(* either way the card leaves the hand and tops the discard pile.          *)
C9_PlayColor ==
  \A k \in Games : \A move \in PlayableMoves, r \in Randoms :
    LET g == G(k)
        res == PlayCall(g, CurrentPlayer(g), move, r)
        hand == At0(g.hands, g.currentPlayerIdx)
        card == At0(hand, move.card)
    IN  (move.type = PLAY /\ res.err = OK) =>
          /\ InRange0(hand, move.card)
          /\ ~IsWild(card) => card.color = g.currentColor /\ res.g.currentColor = g.currentColor
          /\ IsWild(card) => move.color # Undefined /\ res.g.currentColor = move.color
          /\ At0(res.g.hands, g.currentPlayerIdx) = Remove0(hand, move.card)
          /\ res.g.discardPile = Append(g.discardPile, card)

C9_Witness ==
  \E k \in Games :
    /\ IsWild(Last(G(k).discardPile))
    /\ Last(G(k).moves).move.type = PLAY
    /\ Last(G(k).moves).move.color = G(k).currentColor
    /\ G(k).currentColor # G(k).startingTopCardDiscardPile.color

(* C10: an accepted play of a skip card that leaves the game ongoing       *)
(* passes the turn to the second-next active player in the current         *)
(* direction; with exactly two active players a skip or a reverse that     *)
(* leaves the game ongoing returns the turn to the player who played it.   *)
C10_SkipPassesOver ==
  \A k \in Games : \A move \in PlayableMoves, r \in Randoms :
    LET g == G(k)
        res == PlayCall(g, CurrentPlayer(g), move, r)
        card == At0(At0(g.hands, g.currentPlayerIdx), move.card)
    IN  (move.type = PLAY /\ res.err = OK /\ Ongoing(res.g)) =>
          /\ card.type = SKIP =>
               /\ res.g.playerDirection = g.playerDirection
               /\ res.g.currentPlayerIdx = NthActive(res.g.activePlayers, Len(g.players), g.playerDirection, g.currentPlayerIdx, 2)
          /\ (card.type \in {SKIP, REVERSE} /\ Len(g.activePlayers) = 2) => res.g.currentPlayerIdx = g.currentPlayerIdx

C10_Witness ==
  \E k \in Games :
    /\ Len(G(k).activePlayers) >= 3
    /\ Last(G(k).discardPile).type = SKIP
    /\ Last(G(k).moves).move.type = PLAY
    /\ Last(G(k).moves).playerId # CurrentPlayer(G(k))

(* The card a play move of the current player names, and the outcome of    *)
(* that move.                                                              *)
PlayedCard(g, move) == CardAt0(At0(g.hands, g.currentPlayerIdx), move.card)

Played(g, move) == PlayCall(g, CurrentPlayer(g), move, 0)

Accepted(g, move) == move.type = PLAY /\ Played(g, move).err = OK

(* C11 as stated: an accepted play of a reverse card in a game with        *)
(* exactly 2 active players leaves playerDirection as it was.              *)
C11_AsStated ==
  \A k \in Games : \A move \in PlayableMoves :
    (Accepted(G(k), move) /\ PlayedCard(G(k), move).type = REVERSE /\ Len(G(k).activePlayers) = 2) =>
      Played(G(k), move).g.playerDirection = G(k).playerDirection

(* C11, amended: an accepted play of a reverse card in a game with exactly *)
(* 2 active players that does not end the game leaves playerDirection as   *)
(* it was and passes over the other player once, so that the turn is back  *)
(* with the player who played it.                                          *)
C11_ReverseOfTwo ==
  \A k \in Games : \A move \in PlayableMoves :
    (Accepted(G(k), move) /\ PlayedCard(G(k), move).type = REVERSE /\ Len(G(k).activePlayers) = 2 /\ Ongoing(Played(G(k), move).g)) =>
      /\ Played(G(k), move).g.playerDirection = G(k).playerDirection
      /\ Played(G(k), move).g.currentPlayerIdx = NthActive(G(k).activePlayers, Len(G(k).players), G(k).playerDirection, G(k).currentPlayerIdx, 2)
      /\ Played(G(k), move).g.currentPlayerIdx = G(k).currentPlayerIdx

C11_Witness ==
  \E k \in Games :
    /\ Len(G(k).activePlayers) = 2
    /\ Last(G(k).discardPile).type = REVERSE
    /\ Last(G(k).moves).move.type = PLAY
    /\ Last(G(k).moves).playerId = CurrentPlayer(G(k))

(* C12: an accepted play of a reverse card that leaves a number of active  *)
(* players other than 2 negates playerDirection and, the game going on,    *)
(* passes the turn to the next active player in the new direction.         *)
C12_ReverseFlips ==
  \A k \in Games : \A move \in PlayableMoves :
    LET g == G(k)
        h == Played(g, move).g
    IN  (Accepted(g, move) /\ PlayedCard(g, move).type = REVERSE /\ Len(h.activePlayers) # 2) =>
          /\ h.playerDirection = ~g.playerDirection
          /\ Ongoing(h) => h.currentPlayerIdx = NthActive(h.activePlayers, Len(g.players), ~g.playerDirection, g.currentPlayerIdx, 1)

C12_Witness ==
  \E k \in Games :
    /\ Len(G(k).activePlayers) = 3
    /\ Last(G(k).discardPile).type = REVERSE
    /\ Last(G(k).moves).move.type = PLAY
    /\ G(k).playerDirection = (G(k).startingTopCardDiscardPile.type = REVERSE)

(* C13: an accepted play of a draw_two sets lastDrawPlayed to 2, of a      *)
(* wild_draw_four to 4, and passes the turn to the next active player in   *)
(* the direction of play; an accepted play of any other card leaves        *)
(* lastDrawPlayed unset.                                                   *)
C13_DrawCardsOblige ==
  \A k \in Games : \A move \in PlayableMoves :
    LET g == G(k)
        h == Played(g, move).g
        card == PlayedCard(g, move)
    IN  Accepted(g, move) =>
          /\ card.type = DRAW_TWO => h.lastDrawPlayed = 2
          /\ card.type = WILD_DRAW_FOUR => h.lastDrawPlayed = 4
          /\ (card.type \in {DRAW_TWO, WILD_DRAW_FOUR} /\ Ongoing(h)) =>
               /\ h.playerDirection = g.playerDirection
               /\ h.currentPlayerIdx = NthActive(h.activePlayers, Len(g.players), g.playerDirection, g.currentPlayerIdx, 1)
          /\ card.type \notin {DRAW_TWO, WILD_DRAW_FOUR} => h.lastDrawPlayed = NoNumber

C13_Witness ==
  \E k \in Games :
    /\ Ongoing(G(k))
    /\ G(k).lastDrawPlayed = 4
    /\ Last(G(k).discardPile).type = WILD_DRAW_FOUR
    /\ Last(G(k).moves).move.type = PLAY

(* C14: an accepted play that empties the player's hand appends the        *)
(* player's index to winners and removes it from activePlayers; an         *)
(* accepted play that leaves cards in the hand changes neither list.       *)
C14_EmptyHandWins ==
  \A k \in Games : \A move \in PlayableMoves :
    LET g == G(k)
        h == Played(g, move).g
        cur == g.currentPlayerIdx
    IN  Accepted(g, move) =>
          /\ Len(At0(h.hands, cur)) = 0 =>
               /\ Len(h.winners) > Len(g.winners)
               /\ IsPrefix(g.winners, h.winners)
               /\ h.winners[Len(g.winners) + 1] = cur
               /\ cur \notin Range(h.activePlayers)
               /\ Range(h.activePlayers) \subseteq Range(g.activePlayers)
          /\ Len(At0(h.hands, cur)) # 0 => h.winners = g.winners /\ h.activePlayers = g.activePlayers

C14_Witness ==
  \E k \in Games :
    /\ Len(G(k).winners) >= 1
    /\ Last(G(k).moves).move.type = PLAY
    /\ Len(At0(G(k).hands, G(k).winners[1])) = 0

(* The outcome of a quit of player p. *)
Quit(g, p) == quitOngoingCardGame(g, p, LastTime(g))

IsActive(g, p) == \E i \in Range(g.activePlayers) : At0(g.players, i) = p

(* C15: a quit succeeds only for a player whose index is in activePlayers  *)
(* and is rejected, changing nothing, for any other player; a successful   *)
(* quit removes the index from activePlayers and logs one quit move; the   *)
(* turn passes to the next active player if the quitter was the current    *)
(* player and the game goes on, and stays where it was if the quitter was  *)
(* not the current player.                                                 *)
C15_QuitOfActivePlayer ==
  \A k \in Games : \A p \in Players :
    LET g == G(k)
        h == Quit(g, p).g
        idx == FindIndex0(g.players, p)
    IN  /\ Quit(g, p).err = OK => IsActive(g, p)
        /\ ~IsActive(g, p) => Quit(g, p).err = ErrQuit /\ h = g
        /\ Quit(g, p).err = OK =>
             /\ idx \notin Range(h.activePlayers)
             /\ Range(h.activePlayers) \subseteq Range(g.activePlayers)
             /\ Len(h.activePlayers) \in {0, Len(g.activePlayers) - 1}
             /\ h.moves = Append(g.moves, FullMove(p, LastTime(g), BasicMove(QUIT)))
             /\ (idx = g.currentPlayerIdx /\ Ongoing(h)) =>
                  h.currentPlayerIdx = NthActive(h.activePlayers, Len(g.players), g.playerDirection, g.currentPlayerIdx, 1)
             /\ idx # g.currentPlayerIdx => h.currentPlayerIdx = g.currentPlayerIdx

C15_Witness ==
  \E k \in Games :
    /\ Ongoing(G(k))
    /\ Last(G(k).moves).move.type = QUIT
    /\ \E p \in Range(G(k).players) : Quit(G(k), p).err = ErrQuit
    /\ \E p \in Range(G(k).players) : p # CurrentPlayer(G(k)) /\ Quit(G(k), p).err = OK

(* The outcome of a skip requested delay ms after the last logged move. *)
Skip(g, r, delay) == skipMove(g, r, LastTime(g) + delay)

DrawCount(g) == IF g.lastDrawPlayed # NoNumber THEN g.lastDrawPlayed ELSE 1

(* C16 as stated: a skip is rejected when the game has no active players   *)
(* or fewer than MOVE_TIMEOUT ms have passed since the last logged move;   *)
(* otherwise it logs a skip move for the current player, adds              *)
(* lastDrawPlayed-or-1 cards to that player's hand, clears lastDrawPlayed  *)
(* and passes the turn to the next active player.                          *)
C16_SkipAfterTimeout ==
  \A k \in Games : \A r \in Randoms, delay \in Delays :
    LET g == G(k)
        h == Skip(g, r, delay).g
        cur == g.currentPlayerIdx
    IN  IF ~Ongoing(g) \/ delay < MOVE_TIMEOUT
        THEN Skip(g, r, delay).err # OK
        ELSE /\ Skip(g, r, delay).err = OK
             /\ h.moves = Append(g.moves, FullMove(CurrentPlayer(g), LastTime(g) + delay, BasicMove(SKIP)))
             /\ Len(At0(h.hands, cur)) = Len(At0(g.hands, cur)) + DrawCount(g)
             /\ h.lastDrawPlayed = NoNumber
             /\ h.currentPlayerIdx = NthActive(g.activePlayers, Len(g.players), g.playerDirection, cur, 1)

(* The part of C16 that the code keeps: a skip requested more than         *)
(* MOVE_TIMEOUT ms after the last logged move of an ongoing game logs a    *)
(* skip move for the current player, draws as a draw move does, clears     *)
(* lastDrawPlayed and passes the turn on; a skip requested sooner, or on a *)
(* game that is over, is rejected.                                         *)
SkipLateEnough ==
  \A k \in Games : \A r \in Randoms, delay \in Delays :
    LET g == G(k)
        h == Skip(g, r, delay).g
        cur == g.currentPlayerIdx
    IN  IF ~Ongoing(g) \/ delay <= MOVE_TIMEOUT
        THEN Skip(g, r, delay).err # OK /\ h = g
        ELSE /\ Skip(g, r, delay).err = OK
             /\ h.moves = Append(g.moves, FullMove(CurrentPlayer(g), LastTime(g) + delay, BasicMove(SKIP)))
             /\ Len(At0(h.hands, cur)) = Len(At0(g.hands, cur)) + Min(DrawCount(g), Len(g.deck) + Len(g.discardPile) - 1)
             /\ h.lastDrawPlayed = NoNumber
             /\ h.currentPlayerIdx = NthActive(g.activePlayers, Len(g.players), g.playerDirection, cur, 1)

(* The outcomes of every call that can be made on game g. *)
Calls(g) ==
  {PlayCall(g, p, move, r) : p \in Players, move \in PlayableMoves, r \in Randoms}
  \cup {Skip(g, r, delay) : r \in Randoms, delay \in Delays}
  \cup {Quit(g, p) : p \in Players}

(* C17: every call invokes the game-end callback at most once, and invokes *)
(* it exactly when it takes activePlayers from two or more indices to      *)
(* none; activePlayers, once empty, stays empty, so a game's callback is   *)
(* invoked at most once.                                                   *)
C17_EndsInThisCall ==
  \A k \in Games : \A res \in Calls(G(k)) :
    /\ res.ended \in {0, 1}
    /\ res.ended = 1 <=> (Len(G(k).activePlayers) >= 2 /\ Len(res.g.activePlayers) = 0)

C17_StaysOver == \A k \in Games : Len(G(k).activePlayers) = 0 => Len(ongoingGames'[k].activePlayers) = 0

C17_GameEndOnce == []C17_EndsInThisCall /\ [][C17_StaysOver]_vars

C17_Witness ==
  \E k \in Games :
    /\ Len(G(k).activePlayers) = 0
    /\ Len(G(k).eloRatingChanges) = Len(G(k).players)
    /\ Last(G(k).moves).move.type \in {PLAY, QUIT}

(* The rating of a player of rank `rank` (0 for the first winner) among n  *)
(* players who all had DefaultRating: the pairwise expected scores are     *)
(* 1/2 each, so the new rating is DefaultRating + 50 (n - 2 rank - 1) / n, *)
(* rounded to the nearest integer, halves up.                              *)
RatedAt(rank, n) == DefaultRating + ((100 * (n - 2 * rank - 1) + n) \div (2 * n))

Over(g) == Len(g.activePlayers) = 0

(* C18: in a game that has ended, eloRatingChanges holds one entry per     *)
(* player: the winners in finishing order, the i-th rated with rank i,     *)
(* then every player who is not a winner, rated with rank winners.length.  *)
C18_RatingChangePerPlayer ==
  \A k \in Games : Over(G(k)) =>
    LET g == G(k)
        e == g.eloRatingChanges
        n == Len(g.players)
        w == Len(g.winners)
    IN  /\ Len(e) = n
        /\ \A i, j \in 1..Len(e) : e[i].playerId = e[j].playerId => i = j
        /\ \A i \in 1..Len(e) :
             /\ e[i].prevElo = DefaultRating
             /\ i <= w => e[i].playerId = At0(g.players, g.winners[i]) /\ e[i].newElo = RatedAt(i - 1, n)
             /\ i > w => /\ e[i].playerId \in Range(g.players)
                         /\ FindIndex0(g.players, e[i].playerId) \notin Range(g.winners)
                         /\ e[i].newElo = RatedAt(w, n)

(* C19: in a finished game of two players, both rated DefaultRating        *)
(* before, the winner's new rating is 1025 and the loser's 975.            *)
C19_TwoPlayerRatings ==
  \A k \in Games : (Over(G(k)) /\ Len(G(k).players) = 2) =>
    LET g == G(k)
        winner == At0(g.players, g.winners[1])
    IN  /\ \E i \in 1..Len(g.eloRatingChanges) : g.eloRatingChanges[i].playerId = winner /\ g.eloRatingChanges[i].newElo = 1025
        /\ \E i \in 1..Len(g.eloRatingChanges) : g.eloRatingChanges[i].playerId # winner /\ g.eloRatingChanges[i].newElo = 975

(* What remains of C18 and C19 once the ratings were computed: a game     *)
(* whose eloRatingChanges is not empty has them as C18 and C19 say.        *)
RatingChangesOnceComputed == (\A k \in Games : Len(G(k).eloRatingChanges) # 0) => C18_RatingChangePerPlayer

TwoPlayerRatingsOnceComputed == (\A k \in Games : Len(G(k).eloRatingChanges) # 0) => C19_TwoPlayerRatings

(* C20: every pending game has at least one member and no member twice; a  *)
(* join of a member and a leave of a non-member are rejected and change    *)
(* nothing; the leave of the only member removes the pending game.         *)
Distinct(s) == \A i, j \in 1..Len(s) : s[i] = s[j] => i = j

C20_PendingMembers ==
  /\ \A k \in 1..Len(nonStartedGames) : Len(nonStartedGames[k].players) >= 1 /\ Distinct(nonStartedGames[k].players)
  /\ \A k \in 1..Len(nonStartedGames) : \A p \in Players :
       LET game == nonStartedGames[k]
           joined == joinCardGame(nonStartedGames, game.id, p)
           left == leaveNonStartedCardGame(nonStartedGames, game.id, p)
       IN  /\ p \in Range(game.players) => joined.err = ErrJoined /\ joined.games = nonStartedGames
           /\ p \notin Range(game.players) => /\ joined.err = OK
                                              /\ joined.games[k].players = Append(game.players, p)
                                              /\ left.err = ErrNotJoined
                                              /\ left.games = nonStartedGames
           /\ game.players = <<p>> => /\ left.err = OK
                                       /\ Len(left.games) = Len(nonStartedGames) - 1
                                       /\ \A m \in 1..Len(left.games) : left.games[m].id # game.id
           /\ (p \in Range(game.players) /\ Len(game.players) > 1) =>
                /\ left.err = OK
                /\ Len(left.games) = Len(nonStartedGames)
                /\ Range(left.games[k].players) = Range(game.players) \ {p}

C20_Witness ==
  /\ Len(nonStartedGames) = 1
  /\ created = 2
  /\ Len(nonStartedGames[1].players) = 3
  /\ nonStartedGames[1].id = 2

(* C21: startCardGame is rejected, and the pending game stays in the list,  *)
(* when the game has fewer than MIN_PLAYERS or more than MAX_PLAYERS        *)
(* players.  When it succeeds the game is removed from the pending games    *)
(* and appended to the ongoing games under the same id, with the same       *)
(* players in join order, every player index active, no winners, HandSize   *)
(* cards in every hand (2 more for player 0 when the starting card is a     *)
(* draw_two), one card in the discard pile, and hands, discard pile and     *)
(* deck together holding the cards of the deck that was built.              *)
Start(id, color, r, r2) == startCardGame(nonStartedGames, ongoingGames, id, color, r, r2, 0)

(* The players who join a game after the players of the town, so that it   *)
(* has more than MAX_PLAYERS members.                                      *)
Guests == <<"dan", "eve", "fay", "gus", "hal", "ivy", "jon", "kim">>

RECURSIVE JoinAll(_, _, _)
JoinAll(games, id, ps) == IF Len(ps) = 0 THEN games ELSE JoinAll(joinCardGame(games, id, Head(ps)).games, id, Tail(ps))

SameCardsAs(cards, deck) == \A c \in Range(cards) \cup Range(deck) : Count(cards, c) = Count(deck, c)

C21_Rejected(pending, st, err) == st.err = err /\ st.pending = pending /\ st.ongoing = ongoingGames

C21_Started(k, color, st) ==
  LET pending == nonStartedGames[k]
      g == Last(st.ongoing)
      n == Len(pending.players)
  IN  /\ st.pending = Remove0(nonStartedGames, k - 1)
      /\ GameIndex(st.pending, pending.id) = 0
      /\ st.ongoing = Append(ongoingGames, g)
      /\ g.id = pending.id
      /\ g.players = pending.players
      /\ g.activePlayers = [i \in 1..n |-> i - 1]
      /\ g.winners = <<>>
      /\ Len(g.hands) = n
      /\ \A i \in 1..n : Len(g.hands[i]) = HandSize + (IF i = 1 /\ g.discardPile[1].type = DRAW_TWO THEN 2 ELSE 0)
      /\ Len(g.discardPile) = 1
      /\ SameCardsAs(AllCards(g), genUnoDeck(color))

C21_StartOfPendingGame ==
  \A k \in 1..Len(nonStartedGames) : \A color \in StartColors, r \in Randoms, r2 \in Randoms :
    LET pending == nonStartedGames[k]
        st == Start(pending.id, color, r, r2)
        crowded == JoinAll(nonStartedGames, pending.id, Guests)
    IN  /\ Len(pending.players) < MIN_PLAYERS => C21_Rejected(nonStartedGames, st, ErrTooFew)
        /\ Len(crowded[k].players) > MAX_PLAYERS
        /\ C21_Rejected(crowded, startCardGame(crowded, ongoingGames, pending.id, color, r, r2, 0), ErrTooMany)
        /\ st.err = OK => C21_Started(k, color, st)

(* A game was started with a draw_two as its starting card while another   *)
(* game, of one player, is pending.                                        *)
C21_Witness ==
  /\ \E k \in 1..Len(nonStartedGames) : Len(nonStartedGames[k].players) = 1
  /\ \E k \in Games : G(k).discardPile[1].type = DRAW_TWO /\ Len(G(k).hands[1]) = HandSize + 2 /\ Len(G(k).players) = 3

(* C22: in a freshly started game the starting discard card is never a     *)
(* wild or a wild_draw_four and currentColor is its colour; when it is a   *)
(* reverse the direction is false and currentPlayerIdx is 0; when it is a  *)
(* skip currentPlayerIdx is 1; when it is a draw_two player 0 holds 2      *)
(* extra cards, currentPlayerIdx is 1 and lastDrawPlayed is unset;         *)
(* otherwise the direction is true and currentPlayerIdx is 0.              *)
C22_Fresh(g) ==
  LET top == g.discardPile[1]
  IN  /\ top.type \in {NUMBER, DRAW_TWO, REVERSE, SKIP}
      /\ g.currentColor = top.color
      /\ g.currentColor \in Range(ALL_CARD_COLORS)
      /\ top.type = REVERSE => g.playerDirection = FALSE /\ g.currentPlayerIdx = 0
      /\ top.type = SKIP => g.currentPlayerIdx = 1
      /\ top.type = DRAW_TWO => /\ Len(g.hands[1]) = HandSize + 2
                                /\ \A i \in 2..Len(g.hands) : Len(g.hands[i]) = HandSize
                                /\ g.currentPlayerIdx = 1
                                /\ g.lastDrawPlayed = NoNumber
      /\ top.type = NUMBER => g.playerDirection = TRUE /\ g.currentPlayerIdx = 0

C22_FreshGame ==
  \A k \in 1..Len(nonStartedGames) : \A color \in StartColors, r \in Randoms, r2 \in Randoms :
    LET st == Start(nonStartedGames[k].id, color, r, r2)
    IN  st.err = OK => C22_Fresh(Last(st.ongoing))

(* Two games were started, one with a reverse and one with a skip as the   *)
(* starting card.                                                          *)
C22_Witness ==
  /\ \E k \in Games : G(k).discardPile[1].type = REVERSE /\ G(k).playerDirection = FALSE
  /\ \E k \in Games : G(k).discardPile[1].type = SKIP /\ G(k).currentPlayerIdx = 1

(* C23: when startCardGame fails because every one of its deal attempts    *)
(* put a wild card in the starting position, the failure is reported and   *)
(* the start can be tried again: the pending game is still in the list     *)
(* with its members as they were, and no ongoing game was created.         *)
C23_FailedStartKeepsPending ==
  \A k \in 1..Len(nonStartedGames) : \A color \in StartColors, r \in Randoms, r2 \in Randoms :
    LET st == Start(nonStartedGames[k].id, color, r, r2)
    IN  st.err = ErrDeal => st.pending = nonStartedGames /\ st.ongoing = ongoingGames

(* What the code does when the deal fails: the failure is reported and no  *)
(* ongoing game is created, and the pending game is gone.                  *)
FailedStartDropsPending ==
  \A k \in 1..Len(nonStartedGames) : \A color \in StartColors, r \in Randoms, r2 \in Randoms :
    LET st == Start(nonStartedGames[k].id, color, r, r2)
    IN  st.err = ErrDeal => /\ st.ongoing = ongoingGames
                            /\ st.pending = Remove0(nonStartedGames, k - 1)
                            /\ Start(nonStartedGames[k].id, color, r, r2).err = ErrDeal
                            /\ startCardGame(st.pending, st.ongoing, nonStartedGames[k].id, color, r, r2, 0).err = ErrNoGame

(* C24, as stated: a deck built with a colour filter has exactly 16 cards, *)
(* all of that colour and none wild; a deck built without a filter has     *)
(* exactly 72 cards: for each colour the ten number cards 0-9 and two each *)
(* of draw_two, reverse and skip, plus 4 wild and 4 wild_draw_four.        *)
StandardColors == {RED, YELLOW, BLUE, GREEN}

ActionTypes == {DRAW_TWO, REVERSE, SKIP}

OfColorNotWild(deck, color) == \A i \in 1..Len(deck) : deck[i].color = color /\ ~IsWild(deck[i])

(* The deck holds, of every colour in colors, each number 0-9 numbers      *)
(* times and each action card actions times, and wilds of each wild card.  *)
Composition(deck, colors, numbers, actions, wilds) ==
  /\ \A c \in colors :
       /\ \A v \in 0..9 : Count(deck, Card(NUMBER, c, v)) = numbers
       /\ \A t \in ActionTypes : Count(deck, Card(t, c, NoNumber)) = actions
  /\ Count(deck, Card(WILD, Undefined, NoNumber)) = wilds
  /\ Count(deck, Card(WILD_DRAW_FOUR, Undefined, NoNumber)) = wilds

FullDeckAsBuilt ==
  /\ Len(StandardDeck(Undefined)) = 72
  /\ Composition(StandardDeck(Undefined), StandardColors, 1, 2, 4)

(* The decks startCardGame builds for a pending game are as stated. *)
C24_AsStated ==
  \A k \in 1..Len(nonStartedGames) :
    /\ \A c \in StandardColors : Len(StandardDeck(c)) = 16 /\ OfColorNotWild(StandardDeck(c), c)
    /\ FullDeckAsBuilt

(* C24, amended: a deck built with a colour filter has exactly 64 cards,   *)
(* all of that colour and none wild: four of each number card 0-9 and      *)
(* eight each of draw_two, reverse and skip; a deck built without a filter *)
(* is as stated.  Whatever the numbers of colours, values and copies, the  *)
(* builder makes one pass per colour of the list, filter or not, and adds  *)
(* the wild cards only without a filter.                                   *)
DeckSizes ==
  \A n \in 0..4, values \in 0..3, copies \in 0..2, wilds \in 0..2 : \A color \in StandardColors \cup {Undefined} :
    Len(BuildDeck(color, SubSeq(<<RED, YELLOW, BLUE, GREEN>>, 1, n), values, copies, wilds))
      = n * (values + 3 * copies) + (IF color = Undefined THEN 2 * wilds ELSE 0)

C24_DeckAsBuilt ==
  /\ \A c \in StandardColors :
       /\ Len(StandardDeck(c)) = 64
       /\ OfColorNotWild(StandardDeck(c), c)
       /\ Composition(StandardDeck(c), {c}, 4, 8, 0)
  /\ FullDeckAsBuilt
  /\ DeckSizes
  /\ \A k \in Games : \E color \in StartColors : SameCardsAs(AllCards(G(k)), genUnoDeck(color))

(* Two games were started, one from a deck of red cards only and one from  *)
(* a deck of every colour with its wild cards.                             *)
C24_Witness ==
  /\ \E k \in Games : SameCardsAs(AllCards(G(k)), genUnoDeck(RED))
  /\ \E k \in Games : SameCardsAs(AllCards(G(k)), genUnoDeck(Undefined)) /\ \E i \in 1..Len(AllCards(G(k))) : IsWild(AllCards(G(k))[i])

(* C25: advanceMove always terminates and leaves currentPlayerIdx on a     *)
(* member of activePlayers, for any non-empty activePlayers, either        *)
(* direction and any player's index as the starting index, the index of a  *)
(* player who is not active included; with activePlayers empty it changes  *)
(* nothing.  The loop ends within as many iterations as there are players, *)
(* and nothing but currentPlayerIdx changes.                               *)
C25_AdvanceLands ==
  \A k \in Games :
    LET g == G(k)
        within == LoopWithin(g, Len(g.players))
        h == advanceMove(g)
    IN  /\ Len(g.activePlayers) = 0 => h = g
        /\ Len(g.activePlayers) # 0 =>
             /\ within.done
             /\ h = within.g
             /\ Some0(g.activePlayers, h.currentPlayerIdx)
             /\ h = [g EXCEPT !.currentPlayerIdx = h.currentPlayerIdx]

(* The current index is of a player who is not active, and the only active *)
(* player other than the last one is reached by wrapping around.           *)
C25_Witness ==
  \E k \in Games :
    /\ G(k).activePlayers = <<0, 3>>
    /\ G(k).currentPlayerIdx = 1
    /\ G(k).playerDirection = FALSE
    /\ advanceMove(G(k)).currentPlayerIdx = 0
    /\ advanceMove(advanceMove(G(k))).currentPlayerIdx = 3

(* C26: spectateCardGame appends the viewer's id to the game's spectators  *)
(* and is rejected when the id is already there; stopSpectatingCardGame    *)
(* removes it and is rejected when it is not there; so spectators never    *)
(* holds an id twice, and neither operation changes any other field of the *)
(* game.                                                                   *)
Without(s, v) == SelectSeq(s, LAMBDA x : x # v)

C26_Spectators ==
  \A k \in Games :
    /\ Distinct(G(k).spectators)
    /\ \A v \in Viewers :
         LET g == G(k)
             watch == spectateCardGame(g, v)
             stop == stopSpectatingCardGame(g, v)
         IN  /\ v \in Range(g.spectators) =>
                  /\ watch.err = ErrSpectating /\ watch.g = g
                  /\ stop.err = OK /\ stop.g = [g EXCEPT !.spectators = Without(g.spectators, v)]
             /\ v \notin Range(g.spectators) =>
                  /\ watch.err = OK /\ watch.g = [g EXCEPT !.spectators = Append(g.spectators, v)]
                  /\ stop.err = ErrNotSpectator /\ stop.g = g

(* A game has three spectators, in an order other than that of their ids. *)
C26_Witness == \E k \in Games : G(k).spectators = <<"p2", "p3", "p1">>

(* C27: when an occupant leaves the area and no occupant remains, all the  *)
(* pending and all the ongoing games of the area are cleared; when at      *)
(* least one occupant remains, both lists of games are left as they were.  *)
OccupantLeaves == occupants' # occupants /\ occupants' \subseteq occupants

C27_LastOccupantClears ==
  [][OccupantLeaves =>
       IF occupants' = {}
       THEN nonStartedGames' = <<>> /\ ongoingGames' = <<>>
       ELSE nonStartedGames' = nonStartedGames /\ ongoingGames' = ongoingGames]_vars

(* The only occupant is about to leave an area with a pending and an       *)
(* ongoing game, and the games go with that player.                        *)
C27_Witness ==
  /\ Len(nonStartedGames) = 1
  /\ Len(ongoingGames) = 1
  /\ \E p \in Players :
       /\ occupants = {p}
       /\ remove(occupants, nonStartedGames, ongoingGames, p).pending = <<>>
       /\ remove(occupants, nonStartedGames, ongoingGames, p).ongoing = <<>>

(* C28: every create, join, leave, start, spectate, stop spectating, play,  *)
(* skip and quit that changes the state of the area signals an area-changed *)
(* notification carrying the pending and the ongoing games as they are      *)
(* after the operation, the operations that end a game included.  (The      *)
(* arrival of the stored ratings is not one of these operations.)           *)
GamesChanged == nonStartedGames' # nonStartedGames \/ ongoingGames' # ongoingGames

RatingsArrive == \E k \in 1..Len(ongoingGames) : StorePrevEloRatings(k)

Signalled == areaChanged' = <<toModel(nonStartedGames', ongoingGames')>>

C28_ChangeIsSignalled == [][(GamesChanged /\ ~RatingsArrive) => Signalled]_vars

(* What the code does: a change is signalled unless the operation threw    *)
(* after it: a play or a quit that ends a game whose stored ratings have   *)
(* not arrived, or a start whose deal failed.                              *)
EndsUnrated ==
  \E k \in Games :
    /\ Ongoing(G(k))
    /\ G(k).prevEloRatings = <<>>
    /\ ~Ongoing(ongoingGames'[k])
    /\ ongoingGames'[k].eloRatingChanges = <<>>

DealFails == ongoingGames' = ongoingGames /\ Len(nonStartedGames') = Len(nonStartedGames) - 1

SignalledUnlessThrown == [][(GamesChanged /\ ~RatingsArrive) => (Signalled \/ EndsUnrated \/ DealFails)]_vars

(* A change that returns is signalled: every step that leaves a new        *)
(* notification leaves the one of the state it leads to.                   *)
SignalCarriesState == [][areaChanged' # areaChanged => Signalled]_vars

(* C29: the fetch of the stored ratings that startCardGame begins is not   *)
(* on the critical path of later operations: a play or a quit handled      *)
(* before the ratings have arrived is validated and applied exactly as it  *)
(* would be after their arrival, and when it ends the game the operation   *)
(* still succeeds, leaves the game over and consistent, and produces a     *)
(* rating change for every player.                                         *)
RatingsStored(g) == [g EXCEPT !.prevEloRatings = previousElos(g)]

ApartFromRatings(g) == [g EXCEPT !.prevEloRatings = <<>>, !.eloRatingChanges = <<>>]

AsAfterArrival(g, early, late) ==
  /\ early.err = late.err
  /\ ApartFromRatings(early.g) = ApartFromRatings(late.g)
  /\ (Ongoing(g) /\ ~Ongoing(early.g)) =>
       /\ early.err = OK
       /\ Len(early.g.eloRatingChanges) = Len(g.players)

C29_FetchNotOnCriticalPath ==
  \A k \in Games : G(k).prevEloRatings = <<>> =>
    /\ \A p \in Players, move \in PlayableMoves : \A r \in RandomsFor(move) :
         AsAfterArrival(G(k), PlayCall(G(k), p, move, r), PlayCall(RatingsStored(G(k)), p, move, r))
    /\ \A p \in Players : AsAfterArrival(G(k), Quit(G(k), p), Quit(RatingsStored(G(k)), p))

(* What the code does: before the arrival of the ratings, a play or a quit *)
(* that does not end the game is handled as after it; one that ends the    *)
(* game throws, with the game over as after the arrival (the same winners, *)
(* hands and discard pile) and no rating change.                           *)
BeforeArrival(g, early, late) ==
  IF Ongoing(g) /\ ~Ongoing(early.g)
  THEN /\ early.err = ErrNoRating
       /\ late.err = OK
       /\ early.g.eloRatingChanges = <<>>
       /\ early.g.winners = late.g.winners
       /\ early.g.activePlayers = late.g.activePlayers
       /\ early.g.hands = late.g.hands
       /\ early.g.discardPile = late.g.discardPile
  ELSE early.err = late.err /\ ApartFromRatings(early.g) = ApartFromRatings(late.g)

EarlyGameEndThrows ==
  \A k \in Games : G(k).prevEloRatings = <<>> =>
    /\ \A p \in Players, move \in PlayableMoves : \A r \in RandomsFor(move) :
         BeforeArrival(G(k), PlayCall(G(k), p, move, r), PlayCall(RatingsStored(G(k)), p, move, r))
    /\ \A p \in Players : BeforeArrival(G(k), Quit(G(k), p), Quit(RatingsStored(G(k)), p))

(* C30: when a draw finds the deck empty, the new deck consists of exactly *)
(* the cards of the discard pile other than its top card, and afterwards   *)
(* the discard pile holds only that top card; the top discard card and     *)
(* currentColor are the same before and after the reshuffle.               *)
(* The deck as reshuffled: the deck drawCard leaves, with the card it drew *)
(* from the front of the new deck put back.                                *)
Reshuffled(g, h) ==
  IF Len(h.cardsDrawnDuringGame) > Len(g.cardsDrawnDuringGame)
  THEN <<Last(h.cardsDrawnDuringGame)>> \o h.deck
  ELSE h.deck

C30_Reshuffle ==
  \A k \in Games : (Ongoing(G(k)) /\ Len(G(k).deck) = 0) =>
    \A r \in Randoms :
      LET g == G(k)
          drawn == drawCard(g, r)
          h == drawn.g
          op == PlayCall(g, CurrentPlayer(g), Move(DRAW, NoNumber, Undefined), r)
      IN  /\ drawn.err = OK
          /\ SameCardsAs(Reshuffled(g, h), SubSeq(g.discardPile, 1, Len(g.discardPile) - 1))
          /\ h.discardPile = <<Last(g.discardPile)>>
          /\ h.currentColor = g.currentColor
          /\ Len(g.discardPile) > 1 => At0(h.hands, g.currentPlayerIdx) = Append(At0(g.hands, g.currentPlayerIdx), Last(h.cardsDrawnDuringGame))
          /\ op.err = OK
          /\ op.g.discardPile = <<Last(g.discardPile)>>
          /\ op.g.currentColor = g.currentColor

(* A draw finds the deck empty and three cards or more in the discard pile, *)
(* and a shuffle orders the new deck otherwise than the pile was ordered.  *)
C30_Witness ==
  \E k \in Games :
    /\ Ongoing(G(k))
    /\ Len(G(k).deck) = 0
    /\ Len(G(k).discardPile) >= 3
    /\ \E r \in Randoms : Reshuffled(G(k), drawCard(G(k), r).g) # SubSeq(G(k).discardPile, 1, Len(G(k).discardPile) - 1)

(* The log a call leaves when it is accepted and when it is not.            *)
Logs(g, res, entry) ==
  IF res.err = OK THEN res.g.moves = Append(g.moves, entry) ELSE res.g.moves = g.moves

DealtFirst(g) ==
  /\ Len(g.moves) >= Len(g.players)
  /\ \A i \in 1..Len(g.players) :
       /\ g.moves[i].move.type = RECEIVE_HAND
       /\ g.moves[i].playerId = g.players[i]

(* C31: the move log is append-only: the start logs one receive_hand entry  *)
(* per player; every accepted play or draw appends exactly one entry with   *)
(* the mover's id, every accepted skip one skip entry, every accepted quit  *)
(* one quit entry; a rejected operation appends nothing and no operation    *)
(* removes or rewrites an entry.                                            *)
C31_MoveLog ==
  \A k \in Games :
    /\ DealtFirst(G(k))
    /\ \A p \in Players, move \in PlayableMoves, r \in Randoms :
         Logs(G(k), PlayCall(G(k), p, move, r), FullMove(p, LastTime(G(k)), move))
    /\ \A r \in Randoms, delay \in Delays :
         Logs(G(k), Skip(G(k), r, delay), FullMove(CurrentPlayer(G(k)), LastTime(G(k)) + delay, BasicMove(SKIP)))
    /\ \A p \in Players :
         Logs(G(k), Quit(G(k), p), FullMove(p, LastTime(G(k)), BasicMove(QUIT)))

(* What holds of the code: the same, except that a quit which ends the game *)
(* before its ratings are stored throws after it has logged its entry.      *)
MoveLogUnlessEndThrows ==
  \A k \in Games :
    /\ DealtFirst(G(k))
    /\ \A p \in Players, move \in PlayableMoves, r \in Randoms :
         Logs(G(k), PlayCall(G(k), p, move, r), FullMove(p, LastTime(G(k)), move))
    /\ \A r \in Randoms, delay \in Delays :
         Logs(G(k), Skip(G(k), r, delay), FullMove(CurrentPlayer(G(k)), LastTime(G(k)) + delay, BasicMove(SKIP)))
    /\ \A p \in Players :
         IF Quit(G(k), p).err = ErrNoRating
         THEN Quit(G(k), p).g.moves = Append(G(k).moves, FullMove(p, LastTime(G(k)), BasicMove(QUIT)))
         ELSE Logs(G(k), Quit(G(k), p), FullMove(p, LastTime(G(k)), BasicMove(QUIT)))

(* Every step of the area extends the log of each game it keeps.            *)
LogGrows ==
  [][\A k \in Games : k <= Len(ongoingGames') => IsPrefix(G(k).moves, ongoingGames'[k].moves)]_vars
Rated(g) == Over(g) /\ g.eloRatingChanges # <<>>

(* C32: every record given to the history store is the record of a finished *)
(* game and holds that game's whole move log, the move that ended the game  *)
(* (a winning play or the last quit) as its last event, and every game that *)
(* ended with its rating changes has its record.                            *)
C32_RecordHoldsEndingMove ==
  /\ \A i \in 1..Len(matchHistories) :
       \E k \in Games :
         /\ Rated(G(k))
         /\ matchHistories[i].events = G(k).moves
         /\ matchHistories[i].players = G(k).eloRatingChanges
         /\ Last(matchHistories[i].events).move.type \in {PLAY, QUIT}
         /\ Last(matchHistories[i].events).timestamp = matchHistories[i].endTime
  /\ Len(matchHistories) = Cardinality({k \in Games : Rated(G(k))})

(* A record whose last event is the play of the winner's last card.         *)
C32_Witness ==
  \E i \in 1..Len(matchHistories) :
    /\ Last(matchHistories[i].events).move.type = PLAY
    /\ Len(matchHistories[i].events) > Len(matchHistories[i].playingOrder) + 1

(* A record that a quit closed. *)
QuitRecorded ==
  \E i \in 1..Len(matchHistories) : Last(matchHistories[i].events).move.type = QUIT
(***************************************************************************)
(* The replay of a match record (CardGameReplayGameModal): the game it     *)
(* builds from the record and the step that applies the record's next      *)
(* event with the operations of common.ts; r is the replay's Math.random.  *)
(***************************************************************************)
initializeCardGame(m) ==
  LET top == m.startingTopCardDiscardPile
  IN  [id |-> ReplayedGame,
       players |-> m.playingOrder,
       activePlayers |-> [i \in 1..Len(m.players) |-> i - 1],
       spectators |-> <<>>,
       winners |-> <<>>,
       hands |-> m.initialHands,
       moves |-> <<>>,
       deck |-> m.cardsDrawnDuringGame,
       discardPile |-> <<top>>,
       currentColor |-> top.color,
       lastDrawPlayed |-> NoNumber,
       currentPlayerIdx |-> IF top.type = SKIP \/ top.type = DRAW_TWO THEN 1 ELSE 0,
       playerDirection |-> (top.type # REVERSE),
       prevEloRatings |-> <<>>,
       eloRatingChanges |-> <<>>,
       cardsDrawnDuringGame |-> <<>>,
       startingTopCardDiscardPile |-> top,
       initialHands |-> m.initialHands,
       startTime |-> m.endTime]

initializeMoveIdx(m) ==
  IF \E i \in 1..Len(m.events) : m.events[i].move.type # RECEIVE_HAND
  THEN (CHOOSE i \in 1..Len(m.events) :
          /\ m.events[i].move.type # RECEIVE_HAND
          /\ \A h \in 1..(i - 1) : m.events[h].move.type = RECEIVE_HAND) - 1
  ELSE Len(m.events)

ReplayState(game, moveIdx) == [game |-> game, moveIdx |-> moveIdx]

(* nextMove: a throw of the operation leaves moveIdx where it was. *)
nextMove(st, m, r) ==
  LET curMove == At0(m.events, st.moveIdx)
      res == IF curMove.move.type = SKIP THEN playDrawMove(st.game, r)
             ELSE IF curMove.move.type = QUIT THEN quitCardGame(st.game, curMove.playerId, m.endTime)
             ELSE IF curMove.move.type # RECEIVE_HAND THEN playMove(st.game, curMove.move, r)
             ELSE Result(st.game, OK, 0)
      game == IF res.ended > 0 /\ res.err = OK THEN [res.g EXCEPT !.eloRatingChanges = m.players] ELSE res.g
  IN  ReplayState(game, IF res.err = OK THEN st.moveIdx + 1 ELSE st.moveIdx)

(* The replay after j presses of 'next move'. *)
RECURSIVE Replay(_, _, _)
Replay(m, j, r) ==
  IF j = 0 THEN ReplayState(initializeCardGame(m), initializeMoveIdx(m))
  ELSE nextMove(Replay(m, j - 1, r), m, r)

(***************************************************************************)
(* Long games: a game as started, its ratings stored, and then the moves   *)
(* of the player whose turn it is (a draw, a play of a card with the first *)
(* colour, a skip on timeout) and the quits of its players, up to          *)
(* MaxReplayMoves logged moves.                                            *)
(***************************************************************************)
LongInit ==
  /\ \E st \in Starts :
       /\ st.err = OK
       /\ nonStartedGames = st.pending
       /\ ongoingGames = [k \in 1..Len(st.ongoing) |-> [st.ongoing[k] EXCEPT !.prevEloRatings = previousElos(st.ongoing[k])]]
       /\ areaChanged = <<toModel(st.pending, st.ongoing)>>
  /\ created = 1
  /\ occupants = Players
  /\ matchHistories = <<>>
  /\ snapshots = [k \in 1..Len(ongoingGames) |-> <<>>]

CanReplay(g) == Ongoing(g) /\ Len(g.moves) < Len(g.players) + MaxReplayMoves

TurnDraw(k, r) ==
  /\ k \in Games /\ CanReplay(G(k))
  /\ Applied(k, PlayCall(G(k), CurrentPlayer(G(k)), Move(DRAW, NoNumber, Undefined), r))

TurnPlay(k, c) ==
  /\ k \in Games /\ CanReplay(G(k))
  /\ PlayCall(G(k), CurrentPlayer(G(k)), Move(PLAY, c, ALL_CARD_COLORS[1]), 0).err = OK
  /\ Applied(k, PlayCall(G(k), CurrentPlayer(G(k)), Move(PLAY, c, ALL_CARD_COLORS[1]), 0))

TurnSkip(k) ==
  /\ k \in Games /\ CanReplay(G(k))
  /\ Applied(k, Skip(G(k), 0, MOVE_TIMEOUT + 1))

PlayerQuits(k, p) ==
  /\ k \in Games /\ CanReplay(G(k))
  /\ Applied(k, Quit(G(k), p))

LongNext ==
  \/ \E k \in 1..MaxGames, r \in Randoms : TurnDraw(k, r)
  \/ \E k \in 1..MaxGames, c \in 0..(HandSize + 1) : TurnPlay(k, c)
  \/ \E k \in 1..MaxGames : TurnSkip(k)
  \/ \E k \in 1..MaxGames, p \in Players : PlayerQuits(k, p)

SpecLong == LongInit /\ [][LongNext]_vars

(* The game a record is of. *)
GameOf(m) == CHOOSE k \in Games : G(k).moves = m.events

(* C33: replaying a record's play, draw, skip and quit events on the game   *)
(* built from its initial hands, starting discard card and play order, with *)
(* its drawn cards as the deck, shows after every event the hands, current  *)
(* player, active players and winners the original game had after it.       *)
C33_ReplayFollowsGame ==
  \A i \in 1..Len(matchHistories), r \in Randoms :
    LET m == matchHistories[i]
    IN  \A j \in 1..Len(snapshots[GameOf(m)]) :
          /\ Replay(m, j, r).moveIdx = initializeMoveIdx(m) + j
          /\ View(Replay(m, j, r).game) = snapshots[GameOf(m)][j]
(* The j-th replayed event of a record, and the views of its game before it. *)
Event(m, j) == m.events[initializeMoveIdx(m) + j]

Before(m, j) == IF j = 1 THEN View(initializeCardGame(m)) ELSE snapshots[GameOf(m)][j - 1]

(* The cards the j-th event had to draw: those of a draw_two or            *)
(* wild_draw_four played in the latest turn before it, else one.           *)
PrevTurn(m, j) ==
  IF \E p \in 1..(j - 1) : Event(m, p).move.type # QUIT
  THEN CHOOSE p \in 1..(j - 1) :
         /\ Event(m, p).move.type # QUIT
         /\ \A q \in (p + 1)..(j - 1) : Event(m, q).move.type = QUIT
  ELSE 0

Owed(m, j) ==
  LET p == PrevTurn(m, j)
      v == Before(m, p)
      card == CardAt0(At0(v.hands, v.currentPlayerIdx), Event(m, p).move.card)
  IN  IF p = 0 \/ Event(m, p).move.type # PLAY THEN 1
      ELSE IF card.type = DRAW_TWO THEN 2
      ELSE IF card.type = WILD_DRAW_FOUR THEN 4
      ELSE 1

RECURSIVE OwedUpTo(_, _)
OwedUpTo(m, j) ==
  IF j = 0 THEN 0
  ELSE OwedUpTo(m, j - 1) + (IF Event(m, j).move.type \in {DRAW, SKIP} THEN Owed(m, j) ELSE 0)

(* No draw of the game found the deck and the discard pile exhausted. *)
EveryDrawServed(m) == Len(m.cardsDrawnDuringGame) = OwedUpTo(m, Len(snapshots[GameOf(m)]))

(* What holds of the code: the replay follows every game in which each draw *)
(* found its cards.                                                         *)
ReplayFollowsServedGame ==
  \A i \in 1..Len(matchHistories), r \in Randoms :
    LET m == matchHistories[i]
    IN  EveryDrawServed(m) =>
          \A j \in 1..Len(snapshots[GameOf(m)]) :
            /\ Replay(m, j, r).moveIdx = initializeMoveIdx(m) + j
            /\ View(Replay(m, j, r).game) = snapshots[GameOf(m)][j]

(* A replayed game of at least four events with a draw after a reshuffle.   *)
ServedGameReplayed ==
  \E i \in 1..Len(matchHistories) :
    /\ EveryDrawServed(matchHistories[i])
    /\ Len(snapshots[GameOf(matchHistories[i])]) >= 4
    /\ Len(matchHistories[i].cardsDrawnDuringGame) >= 3
TopCard(g) == Last(g.discardPile)

(* C34: in every reachable state of an ongoing game whose top discard card  *)
(* is not a wild or wild_draw_four, currentColor is that card's colour.     *)
C34_ColorOfTopCard ==
  \A k \in Games :
    /\ Len(G(k).discardPile) >= 1
    /\ ~IsWild(TopCard(G(k))) => G(k).currentColor = TopCard(G(k)).color

(* A coloured card lies on a wild card whose player named its colour.       *)
C34_Witness ==
  \E k \in Games :
    /\ Len(G(k).discardPile) >= 2
    /\ IsWild(G(k).discardPile[Len(G(k).discardPile) - 1])
    /\ ~IsWild(TopCard(G(k)))
    /\ G(k).currentColor = TopCard(G(k)).color
(* C35: lastDrawPlayed is unset, 2 or 4; it is 2 only while the top discard *)
(* card is a draw_two and 4 only while it is a wild_draw_four, so draw      *)
(* obligations never add up or exceed 4.                                    *)
C35_DrawObligation ==
  \A k \in Games :
    /\ G(k).lastDrawPlayed \in {NoNumber, 2, 4}
    /\ G(k).lastDrawPlayed = 2 => TopCard(G(k)).type = DRAW_TWO
    /\ G(k).lastDrawPlayed = 4 => TopCard(G(k)).type = WILD_DRAW_FOUR

(* An obligation of 4 is pending in a running game in which at least two   *)
(* cards were drawn before.                                                 *)
C35_Witness ==
  \E k \in Games :
    /\ Ongoing(G(k))
    /\ G(k).lastDrawPlayed = 4
    /\ Len(G(k).cardsDrawnDuringGame) >= 2

(* An obligation of 2 stays pending over a quit. *)
TwoPending ==
  \E k \in Games :
    /\ Ongoing(G(k))
    /\ G(k).lastDrawPlayed = 2
    /\ Last(G(k).moves).move.type = QUIT
Owing(g) == g.lastDrawPlayed # NoNumber

HandOf(g, idx) == At0(g.hands, idx)

(* The next player must draw: no play of a card is accepted from anyone,    *)
(* the player's own is refused for the pending draw, and the player's draw  *)
(* takes the cards owed and clears the obligation.                          *)
MustDraw(g, owed) ==
  /\ \A q \in Players, c \in 0..HandSize, col \in MoveColors :
       PlayCall(g, q, Move(PLAY, c, col), 0).err # OK
  /\ \A c \in 0..HandSize, col \in MoveColors :
       PlayCall(g, CurrentPlayer(g), Move(PLAY, c, col), 0).err = ErrDrawPending
  /\ \A r \in Randoms :
       LET d == PlayCall(g, CurrentPlayer(g), Move(DRAW, NoNumber, Undefined), r)
       IN  /\ d.err = OK
           /\ d.g.lastDrawPlayed = NoNumber
           /\ Len(g.deck) >= owed =>
                Len(HandOf(d.g, g.currentPlayerIdx)) = Len(HandOf(g, g.currentPlayerIdx)) + owed

(* C36: a quit never changes lastDrawPlayed; when the current player quits  *)
(* while an obligation of 2 or 4 is pending and the game goes on, the       *)
(* obligation stays and the next active player, who has the turn, must draw *)
(* before any other move.                                                   *)
C36_QuitKeepsObligation ==
  \A k \in Games, p \in Players :
    LET g == G(k)
        q == Quit(g, p)
    IN  /\ q.g.lastDrawPlayed = g.lastDrawPlayed
        /\ (q.err = OK /\ p = CurrentPlayer(g) /\ Owing(g) /\ Ongoing(q.g)) =>
             /\ q.g.lastDrawPlayed \in {2, 4}
             /\ CurrentPlayer(q.g) # p
             /\ IsActive(q.g, CurrentPlayer(q.g))
             /\ MustDraw(q.g, g.lastDrawPlayed)

(* The current player of a running game owes a draw and quits, and the game *)
(* goes on with the others.                                                 *)
C36_Witness ==
  \E k \in Games :
    /\ Owing(G(k))
    /\ Quit(G(k), CurrentPlayer(G(k))).err = OK
    /\ Ongoing(Quit(G(k), CurrentPlayer(G(k))).g)
PassKinds == {DRAW, SKIP}

(* One turn passed: the draw move of the player whose turn it is, or the    *)
(* skip of that player on timeout.                                          *)
Pass(g, kind, r) ==
  IF kind = DRAW THEN PlayCall(g, CurrentPlayer(g), Move(DRAW, NoNumber, Undefined), r)
  ELSE Skip(g, r, MOVE_TIMEOUT + 1)

(* The game after the first i of the passes in kinds. *)
RECURSIVE Passes(_, _, _, _)
Passes(g, kinds, i, r) ==
  IF i = 0 THEN Result(g, OK, 0)
  ELSE LET before == Passes(g, kinds, i - 1, r)
       IN  IF before.err # OK THEN before ELSE Pass(before.g, kinds[i], r)

(* The 1-based place of the turn among the active players. *)
Place(g) == FindIndex0(g.activePlayers, g.currentPlayerIdx) + 1

(* The active player i places along the direction from the turn. *)
Along(g, i) ==
  LET n == Len(g.activePlayers)
  IN  g.activePlayers[(((Place(g) - 1) + (IF g.playerDirection THEN i ELSE n * i - i)) % n) + 1]

(* The passes kinds[i..n] from the game now, which g became by the first   *)
(* i - 1 of them: each is accepted, is logged for the player it took the    *)
(* turn from, and gives the turn to the next active player along the        *)
(* direction, who is not the one g began with unless all n are done.        *)
RECURSIVE Cycles(_, _, _, _, _)
Cycles(g, now, kinds, i, r) ==
  LET n == Len(g.activePlayers)
      res == Pass(now, kinds[i], r)
  IN  IF i > n THEN now.currentPlayerIdx = g.currentPlayerIdx
      ELSE /\ res.err = OK
           /\ res.g.currentPlayerIdx = Along(g, i)
           /\ res.g.currentPlayerIdx # now.currentPlayerIdx
           /\ i < n => res.g.currentPlayerIdx # g.currentPlayerIdx
           /\ res.g.activePlayers = g.activePlayers
           /\ res.g.playerDirection = g.playerDirection
           /\ Last(res.g.moves).playerId = CurrentPlayer(now)
           /\ Cycles(g, res.g, kinds, i + 1, r)

(* C37: with no card plays and no quits between them, consecutive draw      *)
(* moves and timeout skips pass the turn through the active players in      *)
(* cyclic index order along the current direction: each hands the turn to   *)
(* a different player, and each active player has the turn again after      *)
(* exactly |activePlayers| of them.                                         *)
C37_TurnCycles ==
  \A k \in Games :
    Ongoing(G(k)) =>
      /\ Place(G(k)) >= 1
      /\ \A kinds \in [1..Len(G(k).activePlayers) -> PassKinds], r \in Randoms :
           Cycles(G(k), G(k), kinds, 1, r)

(* Three players are active, the direction is reversed and the turn is with *)
(* the player in the middle: three passes go 1, 0, 2 and back to 1.         *)
C37_Witness ==
  \E k \in Games :
    /\ Len(G(k).activePlayers) = 3
    /\ ~G(k).playerDirection
    /\ G(k).currentPlayerIdx = 1
    /\ Passes(G(k), <<DRAW, SKIP, DRAW>>, 2, 0).g.currentPlayerIdx = 2
(* A finished game takes no move: every play, draw, skip and quit on it is  *)
(* rejected and leaves it as it is; spectating changes its spectators only. *)
TakesNoMove(g) ==
  /\ \A p \in Players, move \in PlayableMoves, r \in Randoms :
       /\ PlayCall(g, p, move, r).err = ErrNotActive
       /\ PlayCall(g, p, move, r).g = g
  /\ \A r \in Randoms, delay \in Delays :
       /\ Skip(g, r, delay).err = ErrEnded
       /\ Skip(g, r, delay).g = g
  /\ \A p \in Players :
       /\ Quit(g, p).err = ErrQuit
       /\ Quit(g, p).g = g
  /\ \A v \in Viewers :
       /\ spectateCardGame(g, v).g = [g EXCEPT !.spectators = spectateCardGame(g, v).g.spectators]
       /\ stopSpectatingCardGame(g, v).g = [g EXCEPT !.spectators = stopSpectatingCardGame(g, v).g.spectators]

NamedColors == {ALL_CARD_COLORS[1], PURPLE}

TurnPlayNaming(k, c, col) ==
  /\ k \in Games /\ Ongoing(G(k))
  /\ PlayCall(G(k), CurrentPlayer(G(k)), Move(PLAY, c, col), 0).err = OK
  /\ Apply(k, PlayCall(G(k), CurrentPlayer(G(k)), Move(PLAY, c, col), 0))

TurnPass(k, kind, r) ==
  /\ k \in Games /\ Ongoing(G(k))
  /\ Apply(k, Pass(G(k), kind, r))

QuitsGame(k, p) ==
  /\ k \in Games /\ Ongoing(G(k))
  /\ Apply(k, Quit(G(k), p))

NamingNext ==
  \/ \E k \in 1..MaxGames, c \in 0..(HandSize + 1), col \in NamedColors : TurnPlayNaming(k, c, col)
  \/ \E k \in 1..MaxGames, kind \in PassKinds, r \in Randoms : TurnPass(k, kind, r)
  \/ \E k \in 1..MaxGames, p \in Players : QuitsGame(k, p)

SpecNaming == LongInit /\ [][NamingNext]_vars

(* C39: in every reachable state of an ongoing game started with standard   *)
(* colours, currentColor is one of red, yellow, blue and green, whatever    *)
(* replacement colour a wild or wild_draw_four move carries.                *)
C39_StandardColor ==
  \A k \in Games : Ongoing(G(k)) => G(k).currentColor \in StandardColors

(* What holds of the code: currentColor is a standard colour or the string  *)
(* that the play of the wild card on top of the pile named.                 *)
ColorStandardOrNamed ==
  \A k \in Games :
    \/ G(k).currentColor \in StandardColors
    \/ /\ IsWild(TopCard(G(k)))
       /\ \E i \in 1..Len(G(k).moves) :
            /\ G(k).moves[i].move.type = PLAY
            /\ G(k).moves[i].move.color = G(k).currentColor
            /\ \A j \in (i + 1)..Len(G(k).moves) : G(k).moves[j].move.type # PLAY
(***************************************************************************)
(* The rating calculation on its own: a finished game of 2 to 8 players    *)
(* with equal stored ratings, its winners the first w players in order or  *)
(* the last w in reverse order and the other players never added to        *)
(* winners, at the point where _onGameEnd is called; the action is         *)
(* _calculateNewElos.                                                      *)
(***************************************************************************)
RatedPlayers == <<"ann", "bob", "cat", "dan", "eve", "fay", "gus", "hal">>

RatingLevels == {DefaultRating, DefaultRating + 25}

WinnerLists(n) ==
  UNION {{[i \in 1..w |-> i - 1], [i \in 1..w |-> n - i]} : w \in 1..n}

FinishedGame(n, winners, rating) ==
  [NewGame([id |-> 1, players |-> SubSeq(RatedPlayers, 1, n)], StandardDeck(Undefined), 0)
     EXCEPT !.activePlayers = <<>>,
            !.winners = winners,
            !.prevEloRatings = [i \in 1..n |-> [playerId |-> RatedPlayers[i], rating |-> rating]]]

RatingInit ==
  /\ nonStartedGames = <<>>
  /\ created = 1
  /\ occupants = {}
  /\ areaChanged = <<>>
  /\ matchHistories = <<>>
  /\ snapshots = <<<<>>>>
  /\ \E n \in MIN_PLAYERS..MAX_PLAYERS : \E winners \in WinnerLists(n), rating \in RatingLevels :
       ongoingGames = <<FinishedGame(n, winners, rating)>>

CalculateNewElos(k) ==
  /\ k \in 1..Len(ongoingGames)
  /\ ongoingGames[k].eloRatingChanges = <<>>
  /\ ongoingGames' = [ongoingGames EXCEPT ![k] = calculateNewElos(@)]
  /\ UNCHANGED <<nonStartedGames, created, occupants, areaChanged, matchHistories, snapshots>>

RatingNext == \E k \in 1..MaxGames : CalculateNewElos(k)

SpecRating == RatingInit /\ [][RatingNext]_vars

RECURSIVE DeltaSum(_, _)
DeltaSum(changes, i) ==
  IF i = 0 THEN 0 ELSE DeltaSum(changes, i - 1) + (changes[i].newElo - changes[i].prevElo)

Deltas(g) == DeltaSum(g.eloRatingChanges, Len(g.eloRatingChanges))

(* The players never added to winners, who share the last rank. *)
Unplaced(g) == Len(g.players) - Len(g.winners)

(* C40 as stated: with equal prior ratings the rounded rating deltas of all *)
(* players of a finished game sum to zero, for 2 to 8 players and every     *)
(* outcome, several quitters sharing the last rank included.                *)
C40_AsStated ==
  \A k \in Games : G(k).eloRatingChanges # <<>> => Deltas(G(k)) = 0

(* C40: with equal prior ratings every player gets a rating change, and the *)
(* rounded deltas sum to zero when at most one player was never added to    *)
(* winners and the game has 2, 3, 5, 6, 7 or 8 players; with 4 players and  *)
(* at most one such player they sum to 2; when two or more players share    *)
(* the last rank they sum to more than zero.                                *)
C40_DeltaSum ==
  \A k \in Games :
    G(k).eloRatingChanges # <<>> =>
      /\ Len(G(k).eloRatingChanges) = Len(G(k).players)
      /\ (Unplaced(G(k)) <= 1 /\ Len(G(k).players) # 4) => Deltas(G(k)) = 0
      /\ (Unplaced(G(k)) <= 1 /\ Len(G(k).players) = 4) => Deltas(G(k)) = 2
      /\ Unplaced(G(k)) >= 2 => Deltas(G(k)) > 0

(* Eight players were rated, seven of them winners in turn. *)
C40_Witness ==
  \E k \in Games :
    /\ Len(G(k).players) = MAX_PLAYERS
    /\ Unplaced(G(k)) = 1
    /\ G(k).eloRatingChanges # <<>>
    /\ Deltas(G(k)) = 0

(* Four players were rated, and three who quit share the last rank. *)
SharedLastRank ==
  \E k \in Games :
    /\ Len(G(k).players) = 4
    /\ Unplaced(G(k)) = 3
    /\ Deltas(G(k)) = 77
====
